---- MODULE Spec2Model ----
(***************************************************************************)
(* A model of the image quality assessor: the assessment pipeline          *)
(* (image_quality_assessor.py) and the upload handler (web_app.py).        *)
(*                                                                         *)
(* Numbers.  The statistics numpy and OpenCV hand to the assess_*          *)
(* functions are kept in thousandths (80000 is 80.0); a score rounded to   *)
(* two decimals is kept in hundredths, the overall score (one decimal) in  *)
(* tenths.  The overall score is computed by the code in IEEE-754 binary64 *)
(* arithmetic on the literals 0.25, 0.15, 0.20, 0.10; that arithmetic is   *)
(* modelled bit for bit on fixed-point numbers in units of 2^-60, held as  *)
(* four limbs of 20 bits (least significant first).                        *)
(***************************************************************************)
EXTENDS Integers, Sequences, FiniteSets, TLC

VARIABLES
    pc,          \* control point of assess_image
    image_path,  \* the file handed to assess_image
    img,         \* the decoded image (its measurements), or NoImage
    results,     \* the results dict assess_image is building
    ret,         \* the value assess_image returned
    decoders,    \* the decoder invocations load_image made, in order
    report,      \* what generate_report / generate_recommendations returned
    disk,        \* the upload folder: file name -> the upload stored under it
    reqs,        \* the upload requests in flight: request -> its state
    self,        \* the fields of the ImageQualityAssessor instance
    kept         \* what the caller kept of earlier calls: <<file, returned value>>

vars ==
    <<pc, image_path, img, results, ret, decoders, report, disk, reqs, self, kept>>

None == "None"

\* No image decoded (img), no dict (results, ret), no report yet.
NoImage == [bands |-> <<>>]

(***************************************************************************)
(* binary64 arithmetic on non-negative values below 2^7, exact multiples   *)
(* of 2^-60.                                                               *)
(***************************************************************************)
Base == 2^20

Zero == <<0, 0, 0, 0>>

\* Carry propagation: limbs that may have outgrown Base, made canonical.
Norm(x) ==
    LET c1 == x[1] \div Base
        l2 == x[2] + c1
        c2 == l2 \div Base
        l3 == x[3] + c2
        c3 == l3 \div Base
    IN  <<x[1] % Base, l2 % Base, l3 % Base, x[4] + c3>>

BAdd(x, y) == Norm(<<x[1] + y[1], x[2] + y[2], x[3] + y[3], x[4] + y[4]>>)

\* k is at most 1000, so a limb times k stays below 2^31.
BMul(x, k) == Norm(<<x[1] * k, x[2] * k, x[3] * k, x[4] * k>>)

BGeq(x, y) ==
    IF x[4] # y[4] THEN x[4] > y[4]
    ELSE IF x[3] # y[3] THEN x[3] > y[3]
    ELSE IF x[2] # y[2] THEN x[2] > y[2]
    ELSE x[1] >= y[1]

\* An integer n as a fixed-point number: n * 2^60.
FromInt(n) == <<0, 0, 0, n>>

RECURSIVE Bits(_)
Bits(n) == IF n = 0 THEN 0 ELSE 1 + Bits(n \div 2)

BitLen(x) ==
    IF x[4] > 0 THEN 60 + Bits(x[4])
    ELSE IF x[3] > 0 THEN 40 + Bits(x[3])
    ELSE IF x[2] > 0 THEN 20 + Bits(x[2])
    ELSE Bits(x[1])

\* Round to nearest, ties to even, to 53 significant bits.  The values here
\* are below 2^67, so at most 14 low bits are dropped, all in the first limb.
RoundToDouble(x) ==
    LET s == BitLen(x) - 53
    IN  IF s <= 0 THEN x
        ELSE LET m    == 2^s
                 r    == x[1] % m
                 half == m \div 2
                 odd  == (x[1] \div m) % 2 = 1
             IN  IF r > half \/ (r = half /\ odd)
                 THEN Norm(<<x[1] - r + m, x[2], x[3], x[4]>>)
                 ELSE <<x[1] - r, x[2], x[3], x[4]>>

\* float + float
FAdd(x, y) == RoundToDouble(BAdd(x, y))

\* int * float
FMulInt(k, x) == RoundToDouble(BMul(x, k))

\* float / 4: a shift of the exponent, exact (every value here is a multiple
\* of 2^-58).
FDiv4(x) ==
    <<(x[1] \div 4) + (x[2] % 4) * (Base \div 4),
      (x[2] \div 4) + (x[3] % 4) * (Base \div 4),
      (x[3] \div 4) + (x[4] % 4) * (Base \div 4),
      x[4] \div 4>>

\* round(x, 1) of a Python float: the one-decimal number nearest to the exact
\* binary value, ties to even; the result in tenths.
Round1(x) ==
    LET m    == BMul(x, 10)
        t    == m[4]
        frac == <<m[1], m[2], m[3], 0>>
        half == <<0, 0, Base \div 2, 0>>
    IN  IF frac = half THEN (IF t % 2 = 1 THEN t + 1 ELSE t)
        ELSE IF BGeq(frac, half) THEN t + 1
        ELSE t

(***************************************************************************)
(* calculate_overall_score                                                 *)
(***************************************************************************)
Tiers == {"Excellent", "Good", "Fair", "Poor"}

\* A variant with the points of Good and Fair exchanged.
quality_scores_exchanged ==
    [t \in Tiers |->
        CASE t = "Excellent" -> 4
          [] t = "Good"      -> 2
          [] t = "Fair"      -> 3
          [] t = "Poor"      -> 1]

\* A variant that counts the tiers from zero.
quality_scores_from_zero ==
    [t \in Tiers |->
        CASE t = "Excellent" -> 3
          [] t = "Good"      -> 2
          [] t = "Fair"      -> 1
          [] t = "Poor"      -> 0]

quality_scores ==
    [t \in Tiers |->
        CASE t = "Excellent" -> 4
          [] t = "Good"      -> 3
          [] t = "Fair"      -> 2
          [] t = "Poor"      -> 1]

\* The weighted aspects, in the order the weights dict lists them.
WeightedAspects ==
    <<"sharpness", "brightness", "contrast", "noise", "color_balance", "saturation">>

AspectSet == {WeightedAspects[i] : i \in 1..Len(WeightedAspects)}

\* The binary64 values of the literals 0.25, 0.15, 0.20, 0.20, 0.10, 0.10.
weights_half_noise(a) ==
    CASE a = "sharpness"     -> <<0, 0, 262144, 0>>
      [] a = "brightness"    -> <<419424, 419430, 157286, 0>>
      [] a = "contrast"      -> <<209728, 209715, 209715, 0>>
      [] a = "noise"         -> <<629152, 629145, 104857, 0>>
      [] a = "color_balance" -> <<629152, 629145, 104857, 0>>
      [] a = "saturation"    -> <<629152, 629145, 104857, 0>>

weights(a) ==
    CASE a = "sharpness"     -> <<0, 0, 262144, 0>>
      [] a = "brightness"    -> <<419424, 419430, 157286, 0>>
      [] a = "contrast"      -> <<209728, 209715, 209715, 0>>
      [] a = "noise"         -> <<209728, 209715, 209715, 0>>
      [] a = "color_balance" -> <<629152, 629145, 104857, 0>>
      [] a = "saturation"    -> <<629152, 629145, 104857, 0>>

RECURSIVE absent_counts_as_poor(_, _, _)
absent_counts_as_poor(res, i, acc) ==
    IF i > Len(WeightedAspects) THEN acc
    ELSE LET aspect == WeightedAspects[i]
             points == IF aspect \in DOMAIN res
                       THEN quality_scores[res[aspect].quality] ELSE 1
         IN  absent_counts_as_poor(res, i + 1,
                 FAdd(acc, FMulInt(points, weights(aspect))))

\* A variant in which a resolution entry earns a tenth of a point.
RECURSIVE resolution_counts(_, _, _)
resolution_counts(res, i, acc) ==
    IF i > Len(WeightedAspects)
    THEN IF "resolution" \in DOMAIN res
         THEN FAdd(acc, weights("saturation")) ELSE acc
    ELSE LET aspect == WeightedAspects[i]
         IN  resolution_counts(res, i + 1,
                 IF aspect \in DOMAIN res
                 THEN FAdd(acc, FMulInt(quality_scores[res[aspect].quality],
                                        weights(aspect)))
                 ELSE acc)

\* The loop over weights.items(): total_score after the aspects i.. are added
\* to acc, an absent aspect being skipped.
RECURSIVE total_score(_, _, _)
total_score(res, i, acc) ==
    IF i > Len(WeightedAspects) THEN acc
    ELSE LET aspect == WeightedAspects[i]
         IN  total_score(res, i + 1,
                 IF aspect \in DOMAIN res
                 THEN FAdd(acc, FMulInt(quality_scores[res[aspect].quality],
                                        weights(aspect)))
                 ELSE acc)

\* (total_score / 4) * 100
overall_percentage(res) ==
    RoundToDouble(BMul(FDiv4(total_score(res, 1, Zero)), 100))

overall_quality(p) ==
    IF BGeq(p, FromInt(85)) THEN "Excellent"
    ELSE IF BGeq(p, FromInt(70)) THEN "Good"
    ELSE IF BGeq(p, FromInt(55)) THEN "Fair"
    ELSE "Poor"

overall_summary(p) ==
    IF BGeq(p, FromInt(85))
    THEN "This is a high-quality image with excellent technical characteristics."
    ELSE IF BGeq(p, FromInt(70))
    THEN "This is a good quality image with minor areas for improvement."
    ELSE IF BGeq(p, FromInt(55))
    THEN "This image has acceptable quality but would benefit from enhancement."
    ELSE "This image has significant quality issues that should be addressed."

calculate_overall_score(res) ==
    LET p == overall_percentage(res)
    IN  [score   |-> Round1(p),
         quality |-> overall_quality(p),
         summary |-> overall_summary(p)]

(***************************************************************************)
(* The decoded image.  OpenCV and numpy are libraries: what they compute   *)
(* from the pixel buffer is carried by the image as its measurements, in   *)
(* thousandths.  The colour content is carried as `bands`: the image is    *)
(* Len(bands) bands of equal area, band i of mean colour bands[i] =        *)
(* <<b, g, r>>, so the mean of a channel over the image is its mean over   *)
(* the bands.                                                              *)
(***************************************************************************)
Scale == 10^3

\* round(x, 2) of a numpy float64 given in thousandths; the result in
\* hundredths (x * 100, rint, / 100: ties go to the even neighbour).
Round2(x) ==
    LET q == x \div 10
        r == x % 10
    IN  IF r > 5 \/ (r = 5 /\ q % 2 = 1) THEN q + 1 ELSE q

\* a / b rounded to the nearest integer, ties to even (a >= 0, b > 0).
RoundDiv(a, b) ==
    LET q == a \div b
        r == a % b
    IN  IF 2 * r > b \/ (2 * r = b /\ q % 2 = 1) THEN q + 1 ELSE q

Abs(x) == IF x < 0 THEN -x ELSE x

Max(S) == CHOOSE x \in S : \A y \in S : y <= x

\* A variant whose thresholds are inclusive.
assess_sharpness_inclusive(image) ==
    LET laplacian_var == image.laplacian_var
    IN  [score  |-> Round2(laplacian_var),
         metric |-> "Laplacian Variance",
         quality |->
            IF laplacian_var >= 500 * Scale THEN "Excellent"
            ELSE IF laplacian_var >= 200 * Scale THEN "Good"
            ELSE IF laplacian_var >= 100 * Scale THEN "Fair"
            ELSE "Poor",
         description |->
            IF laplacian_var >= 500 * Scale
            THEN "The image is very sharp with crisp details and clear edges."
            ELSE IF laplacian_var >= 200 * Scale
            THEN "The image has good sharpness with most details clearly visible."
            ELSE IF laplacian_var >= 100 * Scale
            THEN "The image has moderate sharpness but some details may appear soft."
            ELSE "The image appears blurry or out of focus with poor detail definition."]

assess_sharpness(image) ==
    LET laplacian_var == image.laplacian_var
    IN  [score  |-> Round2(laplacian_var),
         metric |-> "Laplacian Variance",
         quality |->
            IF laplacian_var > 500 * Scale THEN "Excellent"
            ELSE IF laplacian_var > 200 * Scale THEN "Good"
            ELSE IF laplacian_var > 100 * Scale THEN "Fair"
            ELSE "Poor",
         description |->
            IF laplacian_var > 500 * Scale
            THEN "The image is very sharp with crisp details and clear edges."
            ELSE IF laplacian_var > 200 * Scale
            THEN "The image has good sharpness with most details clearly visible."
            ELSE IF laplacian_var > 100 * Scale
            THEN "The image has moderate sharpness but some details may appear soft."
            ELSE "The image appears blurry or out of focus with poor detail definition."]

\* A variant with the lower bounds exclusive.
brightness_quality_exclusive(mean_brightness) ==
    IF 80 * Scale < mean_brightness /\ mean_brightness <= 180 * Scale THEN "Excellent"
    ELSE IF 60 * Scale < mean_brightness /\ mean_brightness <= 200 * Scale THEN "Good"
    ELSE IF 40 * Scale < mean_brightness /\ mean_brightness <= 220 * Scale THEN "Fair"
    ELSE "Poor"

brightness_quality(mean_brightness) ==
    IF 80 * Scale <= mean_brightness /\ mean_brightness <= 180 * Scale THEN "Excellent"
    ELSE IF 60 * Scale <= mean_brightness /\ mean_brightness <= 200 * Scale THEN "Good"
    ELSE IF 40 * Scale <= mean_brightness /\ mean_brightness <= 220 * Scale THEN "Fair"
    ELSE "Poor"

brightness_description(mean_brightness) ==
    IF 80 * Scale <= mean_brightness /\ mean_brightness <= 180 * Scale
    THEN "The image has optimal brightness with good visibility of details."
    ELSE IF 60 * Scale <= mean_brightness /\ mean_brightness <= 200 * Scale
    THEN "The image brightness is acceptable with minor adjustments needed."
    ELSE IF 40 * Scale <= mean_brightness /\ mean_brightness <= 220 * Scale
    THEN "The image is either slightly too dark or too bright."
    ELSE IF mean_brightness < 40 * Scale
    THEN "The image is too dark, making details difficult to see."
    ELSE "The image is overexposed with blown-out highlights."

\* A variant that grades the rounded score instead of the mean itself.
assess_brightness_rounded(image) ==
    [score       |-> Round2(image.mean_brightness),
     quality     |-> brightness_quality(10 * Round2(image.mean_brightness)),
     description |-> brightness_description(10 * Round2(image.mean_brightness)),
     metric      |-> "Mean Brightness (0-255)"]

assess_brightness(image) ==
    [score       |-> Round2(image.mean_brightness),
     quality     |-> brightness_quality(image.mean_brightness),
     description |-> brightness_description(image.mean_brightness),
     metric      |-> "Mean Brightness (0-255)"]

assess_contrast(image) ==
    LET contrast_std == image.contrast_std
    IN  [score  |-> Round2(contrast_std),
         metric |-> "Standard Deviation",
         quality |->
            IF contrast_std > 60 * Scale THEN "Excellent"
            ELSE IF contrast_std > 40 * Scale THEN "Good"
            ELSE IF contrast_std > 25 * Scale THEN "Fair"
            ELSE "Poor",
         description |->
            IF contrast_std > 60 * Scale
            THEN "The image has excellent contrast with a good range of tones."
            ELSE IF contrast_std > 40 * Scale
            THEN "The image has good contrast with adequate tonal separation."
            ELSE IF contrast_std > 25 * Scale
            THEN "The image has moderate contrast but could benefit from enhancement."
            ELSE "The image has poor contrast appearing flat or washed out."]

\* A variant whose thresholds are inclusive.
assess_noise_inclusive(image) ==
    LET noise_estimate == image.noise_estimate
    IN  [score  |-> Round2(noise_estimate),
         metric |-> "Noise Estimate (lower is better)",
         quality |->
            IF noise_estimate <= 5 * Scale THEN "Excellent"
            ELSE IF noise_estimate <= 10 * Scale THEN "Good"
            ELSE IF noise_estimate <= 20 * Scale THEN "Fair"
            ELSE "Poor",
         description |->
            IF noise_estimate <= 5 * Scale
            THEN "The image has minimal noise with clean, smooth areas."
            ELSE IF noise_estimate <= 10 * Scale
            THEN "The image has low noise levels that don't significantly impact quality."
            ELSE IF noise_estimate <= 20 * Scale
            THEN "The image has moderate noise that may be noticeable in smooth areas."
            ELSE "The image has high noise levels that significantly degrade quality."]

assess_noise(image) ==
    LET noise_estimate == image.noise_estimate
    IN  [score  |-> Round2(noise_estimate),
         metric |-> "Noise Estimate (lower is better)",
         quality |->
            IF noise_estimate < 5 * Scale THEN "Excellent"
            ELSE IF noise_estimate < 10 * Scale THEN "Good"
            ELSE IF noise_estimate < 20 * Scale THEN "Fair"
            ELSE "Poor",
         description |->
            IF noise_estimate < 5 * Scale
            THEN "The image has minimal noise with clean, smooth areas."
            ELSE IF noise_estimate < 10 * Scale
            THEN "The image has low noise levels that don't significantly impact quality."
            ELSE IF noise_estimate < 20 * Scale
            THEN "The image has moderate noise that may be noticeable in smooth areas."
            ELSE "The image has high noise levels that significantly degrade quality."]

\* np.sum of one channel (1 = b, 2 = g, 3 = r) over the bands.
RECURSIVE ChannelSum(_, _)
ChannelSum(bands, c) ==
    IF bands = <<>> THEN 0 ELSE Head(bands)[c] + ChannelSum(Tail(bands), c)

\* A variant: the largest deviation of a band from the mean of its own
\* channel, in the same units.
within_channel_deviation(image) ==
    LET n == Len(image.bands)
    IN  Max({3 * Abs(n * image.bands[i][c] - ChannelSum(image.bands, c)) :
                i \in 1..n, c \in 1..3})

\* max_deviation, in units of 1 / (3 * Len(bands)): the mean of a channel is
\* its sum over Len(bands), overall_mean the sum of the three means over 3.
max_deviation(image) ==
    LET sb == ChannelSum(image.bands, 1)
        sg == ChannelSum(image.bands, 2)
        sr == ChannelSum(image.bands, 3)
        s  == sr + sg + sb
    IN  Max({Abs(3 * sr - s), Abs(3 * sg - s), Abs(3 * sb - s)})

\* The dominant colour cast, as the else branch of the tier chain names it.
color_cast(image) ==
    LET mean_b == ChannelSum(image.bands, 1)
        mean_g == ChannelSum(image.bands, 2)
        mean_r == ChannelSum(image.bands, 3)
    IN  IF mean_r > mean_g /\ mean_r > mean_b THEN "reddish"
        ELSE IF mean_g > mean_r /\ mean_g > mean_b THEN "greenish"
        ELSE "bluish"

color_balance_quality(image) ==
    LET n == 3 * Len(image.bands)
        d == max_deviation(image)
    IN  IF d < 10 * n THEN "Excellent"
        ELSE IF d < 20 * n THEN "Good"
        ELSE IF d < 35 * n THEN "Fair"
        ELSE "Poor"

color_balance_description(image) ==
    LET q == color_balance_quality(image)
    IN  IF q = "Excellent"
        THEN <<"The image has excellent color balance with neutral tones.">>
        ELSE IF q = "Good"
        THEN <<"The image has good color balance with minor color casts.">>
        ELSE IF q = "Fair"
        THEN <<"The image has noticeable color cast that may need correction.">>
        ELSE <<"The image has a strong ", color_cast(image),
               " color cast affecting overall appearance.">>

assess_color_balance(image) ==
    LET n == Len(image.bands)
    IN  [score         |-> RoundDiv(100 * max_deviation(image), 3 * n),
         quality       |-> color_balance_quality(image),
         description   |-> color_balance_description(image),
         metric        |-> "Max Channel Deviation",
         channel_means |->
            [red   |-> RoundDiv(100 * ChannelSum(image.bands, 3), n),
             green |-> RoundDiv(100 * ChannelSum(image.bands, 2), n),
             blue  |-> RoundDiv(100 * ChannelSum(image.bands, 1), n)]]

\* A variant with the upper bounds exclusive.
saturation_quality_exclusive(mean_saturation) ==
    IF 80 * Scale <= mean_saturation /\ mean_saturation < 150 * Scale THEN "Excellent"
    ELSE IF 60 * Scale <= mean_saturation /\ mean_saturation < 180 * Scale THEN "Good"
    ELSE IF 40 * Scale <= mean_saturation /\ mean_saturation < 200 * Scale THEN "Fair"
    ELSE "Poor"

saturation_quality(mean_saturation) ==
    IF 80 * Scale <= mean_saturation /\ mean_saturation <= 150 * Scale THEN "Excellent"
    ELSE IF 60 * Scale <= mean_saturation /\ mean_saturation <= 180 * Scale THEN "Good"
    ELSE IF 40 * Scale <= mean_saturation /\ mean_saturation <= 200 * Scale THEN "Fair"
    ELSE "Poor"

saturation_description(mean_saturation) ==
    IF 80 * Scale <= mean_saturation /\ mean_saturation <= 150 * Scale
    THEN "The image has optimal color saturation with vibrant but natural colors."
    ELSE IF 60 * Scale <= mean_saturation /\ mean_saturation <= 180 * Scale
    THEN "The image has good color saturation with appealing colors."
    ELSE IF 40 * Scale <= mean_saturation /\ mean_saturation <= 200 * Scale
    THEN "The image saturation could be improved for better color appeal."
    ELSE IF mean_saturation < 40 * Scale
    THEN "The image appears washed out with very low color saturation."
    ELSE "The image is oversaturated with unnatural, intense colors."

assess_saturation(image) ==
    [score       |-> Round2(image.mean_saturation),
     quality     |-> saturation_quality(image.mean_saturation),
     description |-> saturation_description(image.mean_saturation),
     metric      |-> "Mean Saturation (0-255)"]

\* A variant whose thresholds are exclusive.
resolution_quality_exclusive(total_pixels) ==
    IF total_pixels > 8000000 THEN "High Resolution"
    ELSE IF total_pixels > 2000000 THEN "Medium Resolution"
    ELSE "Low Resolution"

resolution_quality(total_pixels) ==
    IF total_pixels >= 8000000 THEN "High Resolution"
    ELSE IF total_pixels >= 2000000 THEN "Medium Resolution"
    ELSE "Low Resolution"

\* res_quality.lower()
resolution_quality_lower(total_pixels) ==
    IF total_pixels >= 8000000 THEN "high resolution"
    ELSE IF total_pixels >= 2000000 THEN "medium resolution"
    ELSE "low resolution"

\* edge_count is np.sum(edges > 0), edge_permille the edge density in
\* thousandths; the rounded density is in ten-thousandths.
assess_resolution_quality(image) ==
    LET total_pixels == image.height * image.width
    IN  [resolution   |-> <<image.width, "x", image.height>>,
         total_pixels |-> total_pixels,
         edge_density |-> 10 * image.edge_permille,
         resolution_quality |-> resolution_quality(total_pixels),
         detail_quality |->
            IF image.edge_permille > 100 THEN "Rich Detail"
            ELSE IF image.edge_permille > 50 THEN "Moderate Detail"
            ELSE "Low Detail",
         description |->
            <<"The image is ", resolution_quality_lower(total_pixels),
              " (", image.width, "x", image.height, ") ",
              IF image.edge_permille > 100
              THEN "with rich detail and sharp edges."
              ELSE IF image.edge_permille > 50
              THEN "with moderate detail levels."
              ELSE "with limited detail or smooth content.">>]

(***************************************************************************)
(* load_image                                                              *)
(***************************************************************************)
raw_extensions ==
    {".arw", ".cr2", ".cr3", ".nef", ".dng", ".raf", ".orf", ".rw2",
     ".pef", ".srw", ".x3f", ".3fr", ".fff", ".iiq", ".k25", ".kdc",
     ".mef", ".mos", ".mrw", ".nrw", ".ptx", ".r3d", ".raw", ".rwl",
     ".rwz", ".sr2", ".srf"}

\* A path is <<directory, stem, extension>>, the extension with its dot, ""
\* when the name has none.  str.lower on the extensions the model's files
\* carry, and os.path.splitext(path)[1]:
Lower(e) ==
    CASE e = ".PNG" -> ".png"
      [] e = ".NEF" -> ".nef"
      [] OTHER      -> e

splitext(path) == path[3]

\* A variant that falls back to the raster decoder when rawpy fails.
decode_with_fallback(file) ==
    IF Lower(splitext(file.name)) \in raw_extensions /\ file.format = "raw"
    THEN [raised |-> None, error |-> <<>>, image |-> file.image,
          calls  |-> <<"rawpy.imread">>]
    ELSE LET tried == IF Lower(splitext(file.name)) \in raw_extensions
                      THEN <<"rawpy.imread", "cv2.imread">>
                      ELSE <<"cv2.imread">>
         IN  IF file.format = "raster"
             THEN [raised |-> None, error |-> <<>>, image |-> file.image,
                   calls  |-> tried]
             ELSE [raised |-> "ValueError",
                   error  |-> <<"Could not load image: ", file.name>>,
                   image  |-> NoImage,
                   calls  |-> tried]

\* A file is [name, exists, format, image]: name is its path, format what
\* its bytes are ("raster", "raw" or "garbage"), image what they decode to.
\* The body of load_image after the existence check: rawpy for a RAW
\* extension, cv2.imread for any other.
decode(file) ==
    IF Lower(splitext(file.name)) \in raw_extensions
    THEN IF file.format = "raw"
         THEN [raised |-> None, error |-> <<>>, image |-> file.image,
               calls  |-> <<"rawpy.imread">>]
         ELSE [raised |-> "ValueError",
               error  |-> <<"Could not process raw image ", file.name, ": ",
                            "LibRawFileUnsupportedError">>,
               image  |-> NoImage,
               calls  |-> <<"rawpy.imread">>]
    ELSE IF file.format = "raster"
         THEN [raised |-> None, error |-> <<>>, image |-> file.image,
               calls  |-> <<"cv2.imread">>]
         ELSE [raised |-> "ValueError",
               error  |-> <<"Could not load image: ", file.name>>,
               image  |-> NoImage,
               calls  |-> <<"cv2.imread">>]

\* A variant without the existence check: the decoder meets the missing file.
load_image_unchecked(file) == decode(file)

\* The outcome of load_image: the image, or the exception raised, and the
\* decoders invoked on the way.
load_image(file) ==
    IF ~file.exists
    THEN [raised |-> "FileNotFoundError",
          error  |-> <<"Image not found: ", file.name>>,
          image  |-> NoImage,
          calls  |-> <<>>]
    ELSE decode(file)

(***************************************************************************)
(* assess_image                                                            *)
(***************************************************************************)
EmptyDict == [k \in {} |-> None]

\* __init__: self.results = {}; self.explanations = {}
NewAssessor == [results |-> EmptyDict, explanations |-> EmptyDict]

\* The keys of the results dict literal, in the order they are evaluated.
AspectKeys ==
    <<"sharpness", "brightness", "contrast", "noise", "color_balance",
      "saturation", "resolution">>

assess(aspect, image) ==
    CASE aspect = "sharpness"     -> assess_sharpness(image)
      [] aspect = "brightness"    -> assess_brightness(image)
      [] aspect = "contrast"      -> assess_contrast(image)
      [] aspect = "noise"         -> assess_noise(image)
      [] aspect = "color_balance" -> assess_color_balance(image)
      [] aspect = "saturation"    -> assess_saturation(image)
      [] aspect = "resolution"    -> assess_resolution_quality(image)

\* except Exception as e: return {"error": str(e)}
exposes_partial(res, msg) == res @@ ("error" :> msg)

on_exception(res, msg) == ("error" :> msg)

\* The dict literal with every entry evaluated, and the overall entry added.
RECURSIVE results_literal(_, _, _)
results_literal(file, image, i) ==
    IF i = 0 THEN ("image_path" :> file.name)
    ELSE results_literal(file, image, i - 1)
             @@ (AspectKeys[i] :> assess(AspectKeys[i], image))

complete_results(file, image) ==
    LET res == results_literal(file, image, Len(AspectKeys))
    IN  res @@ ("overall" :> calculate_overall_score(res))

\* The call returns: its locals are gone.
Return(value) ==
    /\ pc' = "done"
    /\ ret' = value
    /\ img' = NoImage
    /\ results' = EmptyDict

\* img_bgr, img_rgb = self.load_image(image_path)
StepLoad ==
    /\ pc = "load"
    /\ LET r == load_image(image_path)
       IN  /\ decoders' = decoders \o r.calls
           /\ IF r.raised # None
              THEN Return(on_exception(results, r.error))
              ELSE /\ pc' = AspectKeys[1]
                   /\ img' = r.image
                   /\ results' = ("image_path" :> image_path.name)
                   /\ ret' = ret
    /\ UNCHANGED <<image_path, report, disk, reqs, self, kept>>

\* One entry of the dict literal: "<aspect>": self.assess_<aspect>(img_bgr)
StepAspect(i) ==
    /\ pc = AspectKeys[i]
    /\ results' = results @@ (AspectKeys[i] :> assess(AspectKeys[i], img))
    /\ pc' = IF i < Len(AspectKeys) THEN AspectKeys[i + 1] ELSE "overall"
    /\ UNCHANGED <<image_path, img, ret, decoders, report, disk, reqs, self, kept>>

StepSharpness    == StepAspect(1)
StepBrightness   == StepAspect(2)
StepContrast     == StepAspect(3)
StepNoise        == StepAspect(4)
StepColorBalance == StepAspect(5)
StepSaturation   == StepAspect(6)
StepResolution   == StepAspect(7)

\* An OpenCV or numpy call inside a metric raises (cv2.error, MemoryError).
StepRaise ==
    /\ \E i \in 1..Len(AspectKeys) : pc = AspectKeys[i]
    /\ Return(on_exception(results, <<"cv2.error in ", pc>>))
    /\ UNCHANGED <<image_path, decoders, report, disk, reqs, self, kept>>

\* A variant that hands out the report of an earlier call when one is there.
StepOverallCached ==
    /\ pc = "overall"
    /\ Return(IF "overall" \in DOMAIN ret THEN ret
              ELSE results @@ ("overall" :> calculate_overall_score(results)))
    /\ UNCHANGED <<image_path, decoders, report, disk, reqs, self, kept>>

\* results["overall"] = self.calculate_overall_score(results); return results
StepOverall ==
    /\ pc = "overall"
    /\ Return(results @@ ("overall" :> calculate_overall_score(results)))
    /\ UNCHANGED <<image_path, decoders, report, disk, reqs, self, kept>>

(***************************************************************************)
(* generate_recommendations and generate_report                            *)
(***************************************************************************)
WeakTiers == {"Poor", "Fair"}

sharpness_advice ==
    "Consider using a tripod or faster shutter speed to improve sharpness"
brighten_advice ==
    "Increase exposure or adjust shadows to brighten the image"
dim_advice ==
    "Reduce exposure or adjust highlights to prevent overexposure"
contrast_advice ==
    "Enhance contrast using curves or levels adjustment"
noise_advice ==
    "Apply noise reduction or use lower ISO settings when capturing"
color_balance_advice ==
    "Adjust white balance or apply color correction"
saturate_advice ==
    "Increase color saturation for more vibrant appearance"
desaturate_advice ==
    "Reduce saturation for more natural color appearance"
fallback_advice ==
    "Image quality is good - no major improvements needed"

\* The sentence the body of one aspect's if statement appends; scores are in
\* hundredths.
advice_sentence(res, aspect) ==
    CASE aspect = "sharpness"     -> <<sharpness_advice>>
      [] aspect = "brightness"    ->
           IF res[aspect].score < 80 * 100
           THEN <<brighten_advice>> ELSE <<dim_advice>>
      [] aspect = "contrast"      -> <<contrast_advice>>
      [] aspect = "noise"         -> <<noise_advice>>
      [] aspect = "color_balance" -> <<color_balance_advice>>
      [] aspect = "saturation"    ->
           IF res[aspect].score < 60 * 100
           THEN <<saturate_advice>> ELSE <<desaturate_advice>>

\* A variant that also advises on a Good aspect.
advice_for_good_too(res, aspect) ==
    IF res[aspect].quality \notin WeakTiers \cup {"Good"} THEN <<>>
    ELSE advice_sentence(res, aspect)

\* if results[aspect]["quality"] in ["Poor", "Fair"]: recommendations.append(..)
advice_for(res, aspect) ==
    IF res[aspect].quality \notin WeakTiers THEN <<>>
    ELSE advice_sentence(res, aspect)

RECURSIVE advice_upto(_, _)
advice_upto(res, i) ==
    IF i = 0 THEN <<>>
    ELSE advice_upto(res, i - 1) \o advice_for(res, WeightedAspects[i])

generate_recommendations(res) ==
    LET recommendations == advice_upto(res, Len(WeightedAspects))
    IN  IF recommendations = <<>> THEN <<fallback_advice>> ELSE recommendations

\* os.path.basename: the path without its directory.
basename(path) == <<path[2], path[3]>>

\* str.replace("_", " ").title() on the aspect names.
aspect_name(aspect) ==
    CASE aspect = "sharpness"     -> "Sharpness"
      [] aspect = "brightness"    -> "Brightness"
      [] aspect = "contrast"      -> "Contrast"
      [] aspect = "noise"         -> "Noise"
      [] aspect = "color_balance" -> "Color Balance"
      [] aspect = "saturation"    -> "Saturation"

aspect_section(res, aspect) ==
    IF aspect \notin DOMAIN res THEN <<>>
    ELSE << <<aspect_name(aspect), ":">>,
            <<"  * Quality: ", res[aspect].quality>>,
            <<"  * Score: ", res[aspect].score, " (", res[aspect].metric, ")">>,
            <<"  * ", res[aspect].description>>,
            <<>> >>

RECURSIVE sections_upto(_, _)
sections_upto(res, i) ==
    IF i = 0 THEN <<>>
    ELSE sections_upto(res, i - 1) \o aspect_section(res, WeightedAspects[i])

\* One bullet line per recommendation (the bullet glyph is written * here).
RECURSIVE bullets(_)
bullets(recs) ==
    IF recs = <<>> THEN <<>>
    ELSE << <<"* ", Head(recs)>> >> \o bullets(Tail(recs))

\* "=" * 60 and "-" * 40
rule60 == "============================================================"
rule40 == "----------------------------------------"

\* The report as its lines ("\n".join(report)), each line the fragments the
\* f-string joins.
generate_report(res) ==
    IF "error" \in DOMAIN res
    THEN << <<"Error assessing image: ", res["error"]>> >>
    ELSE << <<rule60>>,
            <<"IMAGE QUALITY ASSESSMENT REPORT">>,
            <<rule60>>,
            <<"Image: ", basename(res["image_path"])>>,
            <<>>,
            <<"OVERALL QUALITY: ", res["overall"].quality,
              " (", res["overall"].score, "%)">>,
            <<res["overall"].summary>>,
            <<>>,
            <<"DETAILED ANALYSIS:">>,
            <<rule40>>,
            <<"Resolution & Detail:">>,
            <<"  * ", res["resolution"].description>>,
            <<>> >>
         \o sections_upto(res, Len(WeightedAspects))
         \o << <<"RECOMMENDATIONS:">>, <<rule40>> >>
         \o bullets(generate_recommendations(res))

\* The subscripts generate_report and the generate_recommendations it calls
\* evaluate on a value without an error key, in order: <<key>> is
\* results[key], <<key, field>> is results[key][field].  A subscript of a key
\* that is not there raises KeyError.
Has(res, path) ==
    /\ path[1] \in DOMAIN res
    /\ Len(path) = 2 => path[2] \in DOMAIN res[path[1]]

report_lookups(res) ==
    LET n == Len(WeightedAspects)
        section(aspect) ==
            IF aspect \notin DOMAIN res THEN <<>>
            ELSE << <<aspect, "quality">>, <<aspect, "score">>,
                    <<aspect, "metric">>, <<aspect, "description">> >>
        advice(aspect) ==
            << <<aspect>>, <<aspect, "quality">> >>
                \o (IF /\ aspect \in {"brightness", "saturation"}
                       /\ Has(res, <<aspect, "quality">>)
                       /\ res[aspect].quality \in WeakTiers
                    THEN << <<aspect, "score">> >> ELSE <<>>)
        sections[i \in 0..n] ==
            IF i = 0 THEN <<>> ELSE sections[i - 1] \o section(WeightedAspects[i])
        advices[i \in 0..n] ==
            IF i = 0 THEN <<>> ELSE advices[i - 1] \o advice(WeightedAspects[i])
    IN  << <<"image_path">>, <<"overall">>, <<"overall", "quality">>,
           <<"overall", "score">>, <<"overall", "summary">>,
           <<"resolution">>, <<"resolution", "description">> >>
            \o sections[n] \o advices[n]

\* The key of the first subscript that fails, None when every one succeeds.
first_missing(res, paths) ==
    LET missing == {k \in DOMAIN paths : ~Has(res, paths[k])}
    IN  IF missing = {} THEN None
        ELSE LET k == CHOOSE i \in missing : \A j \in missing : i <= j
             IN  paths[k][Len(paths[k])]

\* A variant without the check for an error value.
KeyError_without_check(res) == first_missing(res, report_lookups(res))

\* The KeyError generate_report raises on res, None when it returns:
\* if "error" in results: return ... comes before every subscript.
KeyError(res) ==
    IF "error" \in DOMAIN res THEN None
    ELSE first_missing(res, report_lookups(res))

\* A variant that stores the recommendations in the results it is given.
StepReportStoring ==
    /\ pc = "done"
    /\ report' = generate_report(ret)
    /\ ret' = IF "error" \in DOMAIN ret THEN ret
              ELSE ret @@ ("recommendations" :> generate_recommendations(ret))
    /\ pc' = "reported"
    /\ UNCHANGED <<image_path, img, results, decoders, disk, reqs, self, kept>>

\* report = assessor.generate_report(results), as main() and the upload
\* handler call it on what assess_image returned.
StepReport ==
    /\ pc = "done"
    /\ IF KeyError(ret) # None
       THEN /\ report' = << <<"KeyError: ", KeyError(ret)>> >>
            /\ pc' = "raised"
       ELSE /\ report' = generate_report(ret)
            /\ pc' = "reported"
    /\ UNCHANGED <<image_path, img, results, ret, decoders, disk, reqs, self, kept>>

\* recommendations = assessor.generate_recommendations(results), as the test
\* script calls it on a report.
StepRecommend ==
    /\ pc = "done"
    /\ "error" \notin DOMAIN ret
    /\ report' = generate_recommendations(ret)
    /\ pc' = "recommended"
    /\ UNCHANGED <<image_path, img, results, ret, decoders, disk, reqs, self, kept>>

(***************************************************************************)
(* The files and images the pipeline is run on.                            *)
(***************************************************************************)
Image(lv, mb, cs, ne, bands, ms, h, w, ep) ==
    [laplacian_var |-> lv, mean_brightness |-> mb, contrast_std |-> cs,
     noise_estimate |-> ne, bands |-> bands, mean_saturation |-> ms,
     height |-> h, width |-> w, edge_permille |-> ep]

Steel == <<180, 130, 70>>   \* RGB (70, 130, 180), held as <<b, g, r>>
Grey  == <<128, 128, 128>>

SampleImages ==
    {Image(lv, mb, cs, 3 * Scale, <<c>>, ms, 600, 800, ep) :
        lv \in {50 * Scale, 650 * Scale},
        mb \in {30 * Scale, 120 * Scale, 230 * Scale},
        cs \in {20 * Scale, 70 * Scale},
        c  \in {Steel, Grey},
        ms \in {50 * Scale, 100 * Scale},
        ep \in {20, 120}}

File(path, exists, format, image) ==
    [name |-> path, exists |-> exists, format |-> format, image |-> image]

Exts == {".jpg", ".PNG", ".cr2", ".NEF"}

Files ==
    {File(<<"samples/", "photo", e>>, x, "garbage", NoImage) :
        e \in Exts, x \in BOOLEAN}
    \cup
    {File(<<"samples/", "photo", e>>, TRUE, f, i) :
        e \in Exts, f \in {"raster", "raw"}, i \in SampleImages}

Init ==
    /\ pc = "load"
    /\ image_path \in Files
    /\ img = NoImage
    /\ results = EmptyDict
    /\ ret = EmptyDict
    /\ decoders = <<>>
    /\ report = <<>>
    /\ disk = EmptyDict
    /\ reqs = EmptyDict
    /\ self = NewAssessor
    /\ kept = <<>>

Next ==
    \/ StepLoad
    \/ StepSharpness
    \/ StepBrightness
    \/ StepContrast
    \/ StepNoise
    \/ StepColorBalance
    \/ StepSaturation
    \/ StepResolution
    \/ StepRaise
    \/ StepOverall
    \/ StepReport
    \/ StepRecommend

Spec == Init /\ [][Next]_vars

(***************************************************************************)
(* web_app.py: POST /upload                                                *)
(*                                                                         *)
(* The upload folder is `disk`: the path of a stored file -> [format,      *)
(* image, owner], the bytes stored there and the request that sent them.   *)
(* A request is [pc, has_file, filename, upload, filepath, results,        *)
(* report, response].                                                      *)
(***************************************************************************)
UPLOAD_FOLDER == "uploads/"

ALLOWED_EXTENSIONS ==
    {"png", "jpg", "jpeg", "gif", "bmp", "tiff", "webp",
     "arw", "cr2", "cr3", "nef", "dng", "raf", "orf", "rw2",
     "pef", "srw", "x3f", "3fr", "fff", "iiq", "k25", "kdc",
     "mef", "mos", "mrw", "nrw", "ptx", "r3d", "raw", "rwl",
     "rwz", "sr2", "srf"}

\* filename.rsplit('.', 1)[1].lower() on the extensions uploads carry.
rsplit_lower(ext) ==
    CASE ext = ".png" -> "png"
      [] ext = ".PNG" -> "png"
      [] ext = ".cr2" -> "cr2"
      [] ext = ".txt" -> "txt"

\* A variant that takes any filename with a dot in it.
allows_any_extension(filename) == filename[3] # ""

\* '.' in filename and filename.rsplit('.', 1)[1].lower() in ALLOWED_EXTENSIONS
allowed_file(filename) ==
    filename[3] # "" /\ rsplit_lower(filename[3]) \in ALLOWED_EXTENSIONS

\* werkzeug's secure_filename drops the directory part of the client's name;
\* os.path.join puts the upload folder in front.
secure_filename(filename) == <<filename[2], filename[3]>>

join(folder, filename) == <<folder, filename[1], filename[2]>>

\* What assess_image finds at a path of the upload folder.
FileAt(path) ==
    IF path \in DOMAIN disk
    THEN File(path, TRUE, disk[path].format, disk[path].image)
    ELSE File(path, FALSE, "garbage", NoImage)

\* The values assess_image may return for a file, the whole call as one step.
assess_image(file) ==
    LET r == load_image(file)
    IN  IF r.raised # None THEN {on_exception(EmptyDict, r.error)}
        ELSE {complete_results(file, r.image)}
             \cup {on_exception(EmptyDict, <<"cv2.error in ", AspectKeys[i]>>) :
                      i \in 1..Len(AspectKeys)}

NoResponse == [status |-> 0, body |-> EmptyDict]

jsonify(body, status) == [status |-> status, body |-> body]

Responds(r, response) ==
    reqs' = [reqs EXCEPT ![r].pc = "responded", ![r].response = response]

Unlink(path) == [q \in DOMAIN disk \ {path} |-> disk[q]]

\* except Exception as e: if os.path.exists(filepath): os.remove(filepath)
except_cleanup(path) == IF path \in DOMAIN disk THEN Unlink(path) ELSE disk

\* if 'error' in results: return jsonify({'error': results['error']}), 500
\* The return leaves the try block with the upload folder as it is.
on_error_result(path) == disk

\* The checks on the request, then file.save(filepath).
Receive(r) ==
    /\ reqs[r].pc = "start"
    /\ IF ~reqs[r].has_file
       THEN /\ Responds(r, jsonify(("error" :> "No file provided"), 400))
            /\ disk' = disk
       ELSE IF reqs[r].filename = <<"", "", "">>
       THEN /\ Responds(r, jsonify(("error" :> "No file selected"), 400))
            /\ disk' = disk
       ELSE IF allowed_file(reqs[r].filename)
       THEN LET path == join(UPLOAD_FOLDER, secure_filename(reqs[r].filename))
            IN  /\ disk' = (path :> reqs[r].upload) @@ disk
                /\ reqs' = [reqs EXCEPT ![r].pc = "saved", ![r].filepath = path]
       ELSE /\ Responds(r, jsonify(("error" :> "Invalid file type"), 400))
            /\ disk' = disk
    /\ UNCHANGED <<pc, image_path, img, results, ret, decoders, report, self, kept>>

\* results = assessor.assess_image(filepath), and the return on an error result.
Assess(r) ==
    /\ reqs[r].pc = "saved"
    /\ \E out \in assess_image(FileAt(reqs[r].filepath)) :
          IF "error" \in DOMAIN out
          THEN /\ Responds(r, jsonify(("error" :> out["error"]), 500))
               /\ disk' = on_error_result(reqs[r].filepath)
          ELSE /\ reqs' = [reqs EXCEPT ![r].pc = "assessed", ![r].results = out]
               /\ disk' = disk
    /\ UNCHANGED <<pc, image_path, img, results, ret, decoders, report, self, kept>>

\* report = assessor.generate_report(results)
Report(r) ==
    /\ reqs[r].pc = "assessed"
    /\ reqs' = [reqs EXCEPT ![r].pc = "reported",
                            ![r].report = generate_report(reqs[r].results)]
    /\ UNCHANGED <<pc, image_path, img, results, ret, decoders, report, disk, self, kept>>

\* os.remove(filepath); it raises when the file is gone.
Remove(r) ==
    /\ reqs[r].pc = "reported"
    /\ IF reqs[r].filepath \in DOMAIN disk
       THEN /\ disk' = Unlink(reqs[r].filepath)
            /\ reqs' = [reqs EXCEPT ![r].pc = "removed"]
       ELSE /\ disk' = except_cleanup(reqs[r].filepath)
            /\ Responds(r, jsonify(("error" :> "FileNotFoundError"), 500))
    /\ UNCHANGED <<pc, image_path, img, results, ret, decoders, report, self, kept>>

\* return jsonify({'success': True, 'results': results, 'report': report})
Respond(r) ==
    /\ reqs[r].pc = "removed"
    /\ Responds(r, jsonify([success |-> TRUE, results |-> reqs[r].results,
                            report |-> reqs[r].report], 200))
    /\ UNCHANGED <<pc, image_path, img, results, ret, decoders, report, disk, self, kept>>

\* generate_report or jsonify raises: the except clause runs.
Raise(r) ==
    /\ reqs[r].pc \in {"assessed", "removed"}
    /\ disk' = except_cleanup(reqs[r].filepath)
    /\ Responds(r, jsonify(("error" :> <<"exception after ", reqs[r].pc>>), 500))
    /\ UNCHANGED <<pc, image_path, img, results, ret, decoders, report, self, kept>>

\* The requests the model sends.
Filenames ==
    {<<"", "photo", ".png">>, <<"", "photo", ".PNG">>, <<"../", "photo", ".png">>,
     <<"", "shot", ".cr2">>, <<"", "notes", ".txt">>, <<"", "README", "">>,
     <<"", "", "">>}

UploadImage(r) ==
    Image(650 * Scale, 120 * Scale, 70 * Scale, 3 * Scale,
          <<IF r = 1 THEN Grey ELSE Steel>>, 100 * Scale, 600, 800, 120)

Uploads(r) ==
    {[format |-> f, image |-> UploadImage(r), owner |-> r] : f \in {"raster", "raw"}}
    \cup {[format |-> "garbage", image |-> NoImage, owner |-> r]}

Request(has_file, filename, upload) ==
    [pc |-> "start", has_file |-> has_file, filename |-> filename,
     upload |-> upload, filepath |-> <<"", "", "">>, results |-> EmptyDict,
     report |-> <<>>, response |-> NoResponse]

Requests(r) ==
    {Request(TRUE, f, u) : f \in Filenames, u \in Uploads(r)}
    \cup {Request(FALSE, <<"", "", "">>, u) : u \in Uploads(r)}

InitUpload(n) ==
    /\ pc = "idle"
    /\ image_path = File(<<"", "", "">>, FALSE, "garbage", NoImage)
    /\ img = NoImage
    /\ results = EmptyDict
    /\ ret = EmptyDict
    /\ decoders = <<>>
    /\ report = <<>>
    /\ disk = EmptyDict
    /\ reqs \in {q \in [1..n -> UNION {Requests(r) : r \in 1..n}] :
                    \A r \in 1..n : q[r] \in Requests(r)}
    /\ self = NewAssessor
    /\ kept = <<>>

NextUpload ==
    \/ \E r \in DOMAIN reqs : Receive(r)
    \/ \E r \in DOMAIN reqs : Assess(r)
    \/ \E r \in DOMAIN reqs : Report(r)
    \/ \E r \in DOMAIN reqs : Remove(r)
    \/ \E r \in DOMAIN reqs : Respond(r)
    \/ \E r \in DOMAIN reqs : Raise(r)

\* One request at a time.
SpecUpload == InitUpload(1) /\ [][NextUpload]_vars

\* Two requests handled concurrently.
SpecUploads == InitUpload(2) /\ [][NextUpload]_vars

(***************************************************************************)
(* calculate_overall_score on its own: every map of the weighted aspects,  *)
(* present with any tier or absent.                                        *)
(***************************************************************************)
Absent == "absent"

TierMap(c) ==
    [a \in {x \in AspectSet : c[x] # Absent} |-> [quality |-> c[a]]]

TierMaps == {TierMap(c) : c \in [AspectSet -> Tiers \cup {Absent}]}

InitAggregate ==
    /\ pc = "overall"
    /\ image_path = File(<<"", "", "">>, FALSE, "garbage", NoImage)
    /\ img = NoImage
    /\ results \in TierMaps
    /\ ret = EmptyDict
    /\ decoders = <<>>
    /\ report = <<>>
    /\ disk = EmptyDict
    /\ reqs = EmptyDict
    /\ self = NewAssessor
    /\ kept = <<>>

SpecAggregate == InitAggregate /\ [][StepOverall]_vars

(***************************************************************************)
(* generate_recommendations on complete reports: images whose six weighted *)
(* aspects take every tier, brightness and saturation on both sides of     *)
(* their bands, picked up where the dict literal of assess_image has been  *)
(* evaluated.                                                              *)
(***************************************************************************)
Warmish == <<120, 128, 150>>   \* max deviation 17.33
Tinted  == <<100, 130, 160>>   \* max deviation 30

TierImages ==
    {Image(lv, mb, cs, ne, <<c>>, ms, 600, 800, 120) :
        lv \in {50 * Scale, 150 * Scale, 300 * Scale, 650 * Scale},
        mb \in {30 * Scale, 50 * Scale, 70 * Scale, 120 * Scale,
                190 * Scale, 210 * Scale, 230 * Scale},
        cs \in {20 * Scale, 30 * Scale, 50 * Scale, 70 * Scale},
        ne \in {3 * Scale, 7 * Scale, 15 * Scale, 25 * Scale},
        c  \in {Grey, Warmish, Tinted, Steel},
        ms \in {30 * Scale, 50 * Scale, 70 * Scale, 100 * Scale,
                170 * Scale, 190 * Scale, 210 * Scale}}

InitRecommend ==
    /\ pc = "overall"
    /\ \E i \in TierImages :
          /\ image_path = File(<<"samples/", "photo", ".jpg">>, TRUE, "raster", i)
          /\ img = i
          /\ results = results_literal(image_path, i, Len(AspectKeys))
    /\ ret = EmptyDict
    /\ decoders = <<"cv2.imread">>
    /\ report = <<>>
    /\ disk = EmptyDict
    /\ reqs = EmptyDict
    /\ self = NewAssessor
    /\ kept = <<>>

NextRecommend ==
    \/ StepOverall
    \/ StepRecommend

SpecRecommend == InitRecommend /\ [][NextRecommend]_vars

(***************************************************************************)
(* One metric on its own: the pipeline picked up at the entry of the dict  *)
(* literal that calls it, on images that sweep what the metric reads.      *)
(***************************************************************************)
InitAt(i, images) ==
    /\ pc = AspectKeys[i]
    /\ \E x \in images :
          /\ image_path = File(<<"samples/", "photo", ".jpg">>, TRUE, "raster", x)
          /\ img = x
          /\ results = results_literal(image_path, x, i - 1)
    /\ ret = EmptyDict
    /\ decoders = <<"cv2.imread">>
    /\ report = <<>>
    /\ disk = EmptyDict
    /\ reqs = EmptyDict
    /\ self = NewAssessor
    /\ kept = <<>>

\* cv2.COLOR_BGR2GRAY of one colour: 0.299 R + 0.587 G + 0.114 B, to 8 bits.
Gray(c) == RoundDiv(114 * c[1] + 587 * c[2] + 299 * c[3], 1000)

\* The S of cv2.COLOR_BGR2HSV of one colour: 255 (max - min) / max, to 8 bits.
Saturation(c) ==
    LET hi == Max({c[1], c[2], c[3]})
        lo == -Max({-c[1], -c[2], -c[3]})
    IN  IF hi = 0 THEN 0 ELSE RoundDiv(255 * (hi - lo), hi)

RECURSIVE SumOver(_, _, _)
SumOver(bands, i, f) ==
    IF i = 0 THEN 0
    ELSE SumOver(bands, i - 1, f)
            + (IF f = "gray" THEN Gray(bands[i]) ELSE Saturation(bands[i]))

\* Images made of flat bands of colour: the colour statistics follow from the
\* bands; an image of one colour has no edges, no contrast and no noise.
Flat(bands) == \A i \in DOMAIN bands : bands[i] = bands[1]

BandedImage(bands) ==
    LET n == Len(bands)
        mb == (Scale * SumOver(bands, n, "gray")) \div n
        ms == (Scale * SumOver(bands, n, "saturation")) \div n
    IN  IF Flat(bands)
        THEN Image(0, mb, 0, 0, bands, ms, 600, 800, 0)
        ELSE Image(150 * Scale, mb, 50 * Scale, 3 * Scale, bands, ms, 600, 800, 20)

MaxBands == 2

Levels == {0, 128, 255}

Palette ==
    {<<b, g, r>> : b \in Levels, g \in Levels, r \in Levels}
        \cup {Steel, <<90, 100, 150>>}

RECURSIVE BandSeqs(_)
BandSeqs(n) ==
    IF n = 0 THEN {<<>>}
    ELSE {Append(s, c) : s \in BandSeqs(n - 1), c \in Palette}

BandedImages ==
    {BandedImage(s) : s \in UNION {BandSeqs(n) : n \in 1..MaxBands}}

InitColorBalance == InitAt(5, BandedImages)

SpecColorBalance == InitColorBalance /\ [][StepColorBalance]_vars

\* A mean over 8-bit values, in thousandths: every whole value, and every
\* thousandth within Fine of a threshold.
Fine == 10

Sweep(thresholds) ==
    {v * Scale : v \in 0..255}
        \cup {t * Scale + d : t \in thresholds, d \in -Fine..Fine}

Plain ==
    Image(300 * Scale, 120 * Scale, 50 * Scale, 7 * Scale, <<Grey>>,
          100 * Scale, 600, 800, 80)

BrightnessImages ==
    {[Plain EXCEPT !.mean_brightness = b] :
        b \in Sweep({40, 60, 80, 180, 200, 220})}

InitBrightness == InitAt(2, BrightnessImages)

SpecBrightness == InitBrightness /\ [][StepBrightness]_vars

SaturationImages ==
    {[Plain EXCEPT !.mean_saturation = m] :
        m \in Sweep({40, 60, 80, 150, 180, 200})}

InitSaturation == InitAt(6, SaturationImages)

SpecSaturation == InitSaturation /\ [][StepSaturation]_vars

\* The two higher-is-better metrics: the Laplacian variance in steps of 5 and
\* the standard deviation of 8-bit values in whole steps, each with every
\* thousandth within Fine of its thresholds; the pipeline from its first
\* entry to the contrast entry.
Around(thresholds) ==
    {t * Scale + d : t \in thresholds, d \in -Fine..Fine}

SharpnessImages ==
    {[Plain EXCEPT !.laplacian_var = v] :
        v \in {5 * k * Scale : k \in 0..140} \cup Around({100, 200, 500})}

ContrastImages ==
    {[Plain EXCEPT !.contrast_std = c] :
        c \in {k * Scale : k \in 0..127} \cup Around({25, 40, 60})}

InitHigherIsBetter == InitAt(1, SharpnessImages \cup ContrastImages)

NextHigherIsBetter ==
    \/ StepSharpness
    \/ StepBrightness
    \/ StepContrast

SpecHigherIsBetter == InitHigherIsBetter /\ [][NextHigherIsBetter]_vars

\* The two lower-is-better metrics: the noise estimate in whole steps with
\* every thousandth within Fine of its thresholds, and channel means
\* <<100, 100 + j, 100 + k>>, whose max deviation moves in thirds through
\* 10 (k = 15), 20 (k = 30) and 35 (j = 45, k = 60); the pipeline from the
\* noise entry to the colour balance entry.
NoiseImages ==
    {[Plain EXCEPT !.noise_estimate = n] :
        n \in {k * Scale : k \in 0..127} \cup Around({5, 10, 20})}

CastImages ==
    {[Plain EXCEPT !.bands = << <<100, 100 + j, 100 + k>> >>] :
        j \in {0, 15, 30, 45}, k \in 0..110}

InitLowerIsBetter == InitAt(4, NoiseImages \cup CastImages)

NextLowerIsBetter ==
    \/ StepNoise
    \/ StepColorBalance

SpecLowerIsBetter == InitLowerIsBetter /\ [][NextLowerIsBetter]_vars

(***************************************************************************)
(* assess_noise from the pixels: a grey image of one row, its 8-bit        *)
(* luminance `gray` a sequence of values 0..255 (for a grey pixel          *)
(* cv2.cvtColor gives the pixel's own value).                              *)
(***************************************************************************)
\* BORDER_REFLECT_101: the index a 1-based position i outside 1..n reads.
Reflect101(i, n) ==
    IF n = 1 THEN 1
    ELSE IF i < 1 THEN 2 - i
    ELSE IF i > n THEN 2 * n - i
    ELSE i

\* cv2.GaussianBlur(gray, (5, 5), 0) on one row: the kernel 1 4 6 4 1 over
\* 16 along the row (the pass across rows reads the one row again), rounded
\* to the nearest 8-bit value.
GaussianBlur(gray) ==
    LET n == Len(gray)
        at(i) == gray[Reflect101(i, n)]
    IN  [i \in 1..n |->
            (at(i - 2) + 4 * at(i - 1) + 6 * at(i) + 4 * at(i + 1) + at(i + 2) + 8)
                \div 16]

\* gray - blurred on two uint8 arrays: numpy subtracts modulo 2^8.
uint8_subtract(x, y) == [i \in DOMAIN x |-> (x[i] - y[i]) % 2^8]

RECURSIVE SumSeq(_)
SumSeq(xs) == IF xs = <<>> THEN 0 ELSE Head(xs) + SumSeq(Tail(xs))

\* floor(sqrt(v)), and one more decimal digit of a root r with remainder
\* rem = v - r * r.
isqrt(v) == CHOOSE r \in 0..2^11 : r * r <= v /\ v < (r + 1) * (r + 1)

NextDigit(s) ==
    LET r == s[1]
        rem == s[2]
        d == Max({k \in 0..9 : 20 * r * k + k * k <= 100 * rem})
    IN  <<10 * r + d, 100 * rem - 20 * r * d - d * d>>

\* np.std(xs), in thousandths: sqrt(n * sum(x^2) - sum(x)^2) / n, the root
\* taken to three decimals.
std(xs) ==
    LET n == Len(xs)
        v == n * SumSeq([i \in DOMAIN xs |-> xs[i] * xs[i]]) - SumSeq(xs) * SumSeq(xs)
        r == isqrt(v)
        root == NextDigit(NextDigit(NextDigit(<<r, v - r * r>>)))[1]
    IN  RoundDiv(root, n)

\* blurred = cv2.GaussianBlur(gray, (5, 5), 0)
\* noise_estimate = np.std(gray - blurred)
noise_estimate(gray) == std(uint8_subtract(gray, GaussianBlur(gray)))

RowWidth == 5

GrayLevels == {10, 11, 40}

RowImage(gray) ==
    [gray |-> gray, noise_estimate |-> noise_estimate(gray),
     height |-> 1, width |-> Len(gray)]

RowImages == {RowImage(g) : g \in [1..RowWidth -> GrayLevels]}

\* assessor.assess_noise(image) called on its own.
InitNoise ==
    /\ pc = "noise"
    /\ \E x \in RowImages :
          /\ image_path = File(<<"samples/", "row", ".png">>, TRUE, "raster", x)
          /\ img = x
    /\ results = EmptyDict
    /\ ret = EmptyDict
    /\ decoders = <<"cv2.imread">>
    /\ report = <<>>
    /\ disk = EmptyDict
    /\ reqs = EmptyDict
    /\ self = NewAssessor
    /\ kept = <<>>

SpecNoise == InitNoise /\ [][StepNoise]_vars

\* assess_resolution_quality: image shapes whose pixel counts lie on and next
\* to 2,000,000 (1000 x 2000; 17 x 117647 is one less) and 8,000,000
\* (2000 x 4000; 199 x 40201 is one less), with each detail level.
ResolutionImages ==
    {[Plain EXCEPT !.height = h, !.width = w, !.edge_permille = e] :
        h \in {17, 199, 600, 1000, 1999, 2000, 2001, 3000},
        w \in {800, 1000, 2000, 3999, 4000, 4001, 40201, 117647},
        e \in {20, 50, 51, 100, 101, 120}}

InitResolution == InitAt(7, ResolutionImages)

SpecResolution == InitResolution /\ [][StepResolution]_vars

\* calculate_overall_score on maps that carry more than the weighted aspects:
\* every tier of the six, with or without an image_path and a resolution
\* entry of either of two images.
Unweighted ==
    LET paths == {("image_path" :> p) :
                     p \in {<<"samples/", "photo", ".jpg">>, <<"other/", "shot", ".png">>}}
        resolutions ==
            {("resolution" :> assess_resolution_quality(x)) :
                x \in {Plain, [Plain EXCEPT !.height = 3000, !.width = 4000,
                                            !.edge_permille = 20]}}
    IN  {EmptyDict} \cup paths \cup resolutions
            \cup {p @@ r : p \in paths, r \in resolutions}

InitAdvisory ==
    /\ pc = "overall"
    /\ image_path = File(<<"", "", "">>, FALSE, "garbage", NoImage)
    /\ img = NoImage
    /\ \E c \in [AspectSet -> Tiers], u \in Unweighted : results = TierMap(c) @@ u
    /\ ret = EmptyDict
    /\ decoders = <<>>
    /\ report = <<>>
    /\ disk = EmptyDict
    /\ reqs = EmptyDict
    /\ self = NewAssessor
    /\ kept = <<>>

SpecAdvisory == InitAdvisory /\ [][StepOverall]_vars

(***************************************************************************)
(* One assessor instance used for several calls in a row, as the test      *)
(* script does: the caller keeps each returned value and calls again.      *)
(***************************************************************************)
MaxCalls == 2

RepeatFiles ==
    {File(<<"samples/", "high_quality", ".jpg">>, TRUE, "raster", Plain),
     File(<<"samples/", "blurry_image", ".jpg">>, TRUE, "raster",
          [Plain EXCEPT !.laplacian_var = 50 * Scale]),
     File(<<"samples/", "missing", ".jpg">>, FALSE, "garbage", NoImage)}

\* results = assessor.assess_image(...): the caller binds the returned value.
StepKeep ==
    /\ pc = "done"
    /\ kept' = Append(kept, <<image_path, ret>>)
    /\ pc' = "kept"
    /\ UNCHANGED <<image_path, img, results, ret, decoders, report, disk, reqs, self>>

\* The next assessor.assess_image(...) on the same instance.
StepCall ==
    /\ pc = "kept"
    /\ Len(kept) < MaxCalls
    /\ image_path' \in RepeatFiles
    /\ pc' = "load"
    /\ UNCHANGED <<img, results, ret, decoders, report, disk, reqs, self, kept>>

InitRepeat ==
    /\ pc = "load"
    /\ image_path \in RepeatFiles
    /\ img = NoImage
    /\ results = EmptyDict
    /\ ret = EmptyDict
    /\ decoders = <<>>
    /\ report = <<>>
    /\ disk = EmptyDict
    /\ reqs = EmptyDict
    /\ self = NewAssessor
    /\ kept = <<>>

NextRepeat ==
    \/ StepLoad
    \/ StepSharpness
    \/ StepBrightness
    \/ StepContrast
    \/ StepNoise
    \/ StepColorBalance
    \/ StepSaturation
    \/ StepResolution
    \/ StepRaise
    \/ StepOverall
    \/ StepKeep
    \/ StepCall

SpecRepeat == InitRepeat /\ [][NextRepeat]_vars

\* The saturation entry and what follows it, up to the recommendations, over
\* the sweep of mean saturations.
InitSaturationAdvice == InitAt(6, SaturationImages)

NextSaturationAdvice ==
    \/ StepSaturation
    \/ StepResolution
    \/ StepOverall
    \/ StepRecommend

SpecSaturationAdvice == InitSaturationAdvice /\ [][NextSaturationAdvice]_vars

\* The six weighted metrics one after the other, from the first entry of the
\* dict literal to the resolution entry, on every image of the sweeps above.
MetricImages ==
    SharpnessImages \cup BrightnessImages \cup ContrastImages
        \cup NoiseImages \cup CastImages \cup SaturationImages

InitMetrics == InitAt(1, MetricImages)

NextMetrics ==
    \/ StepSharpness
    \/ StepBrightness
    \/ StepContrast
    \/ StepNoise
    \/ StepColorBalance
    \/ StepSaturation

SpecMetrics == InitMetrics /\ [][NextMetrics]_vars

(***************************************************************************)
(* calculate_overall_score called twice: on a complete map of tiers, and,  *)
(* once the caller has kept the first result, on the same map with the     *)
(* tier of one aspect raised.                                              *)
(***************************************************************************)
TierOrder == <<"Poor", "Fair", "Good", "Excellent">>

Rank(t) == CHOOSE i \in DOMAIN TierOrder : TierOrder[i] = t

StepCallRaised ==
    /\ pc = "kept"
    /\ Len(kept) = 1
    /\ \E a \in AspectSet, t \in Tiers :
          /\ Rank(t) > Rank(kept[1][2][a].quality)
          /\ results' = [x \in AspectSet |->
                            [quality |-> IF x = a THEN t ELSE kept[1][2][x].quality]]
    /\ pc' = "overall"
    /\ UNCHANGED <<image_path, img, ret, decoders, report, disk, reqs, self, kept>>

InitMonotone ==
    /\ pc = "overall"
    /\ image_path = File(<<"", "", "">>, FALSE, "garbage", NoImage)
    /\ img = NoImage
    /\ \E c \in [AspectSet -> Tiers] : results = TierMap(c)
    /\ ret = EmptyDict
    /\ decoders = <<>>
    /\ report = <<>>
    /\ disk = EmptyDict
    /\ reqs = EmptyDict
    /\ self = NewAssessor
    /\ kept = <<>>

NextMonotone ==
    \/ StepOverall
    \/ StepKeep
    \/ StepCallRaised

SpecMonotone == InitMonotone /\ [][NextMonotone]_vars

(***************************************************************************)
(* Properties                                                              *)
(***************************************************************************)
Returned == pc \in {"done", "reported", "recommended"}

ReportKeys ==
    {"image_path", "overall"} \cup {AspectKeys[i] : i \in 1..Len(AspectKeys)}

\* C1: assess_image returns either a report holding image_path, the seven
\* aspect keys and overall, with no error key, or a value whose only key is
\* error; a file that cannot be loaded gives the error value, and a failure
\* in a metric step exposes none of the aspect results computed before it.
C1_ReportOrErrorOnly ==
    Returned =>
        /\ DOMAIN ret = ReportKeys \/ DOMAIN ret = {"error"}
        /\ load_image(image_path).raised # None => DOMAIN ret = {"error"}
        /\ DOMAIN ret = ReportKeys =>
              ret = complete_results(image_path, image_path.image)

\* A metric step failed after sharpness, brightness and contrast had been
\* computed, and the call returned.
C1_Witness ==
    /\ pc = "done"
    /\ load_image(image_path).raised = None
    /\ DOMAIN ret = {"error"}
    /\ ret["error"] = <<"cv2.error in ", "noise">>

Saved(r) == reqs[r].filepath # <<"", "", "">>

\* C2: once the upload handler has saved the uploaded file, that file no
\* longer exists when the request returns, whichever way it returns (the
\* assessment succeeded, it gave an error result, or an exception was raised
\* while the report or the response was built).
C2_UploadRemovedOnReturn ==
    \A r \in DOMAIN reqs :
        reqs[r].pc = "responded" /\ Saved(r) => reqs[r].filepath \notin DOMAIN disk

(***************************************************************************)
(* The aggregator's arithmetic done exactly, in integers: the weights in   *)
(* hundredths, the percentage in hundredths of a percent.                  *)
(***************************************************************************)
Points(t) ==
    CASE t = "Excellent" -> 4 [] t = "Good" -> 3 [] t = "Fair" -> 2 [] t = "Poor" -> 1

Weight100(a) ==
    CASE a = "sharpness" -> 25 [] a = "brightness" -> 15 [] a = "contrast" -> 20
      [] a = "noise" -> 20 [] a = "color_balance" -> 10 [] a = "saturation" -> 10

RECURSIVE ExactSum100(_, _)
ExactSum100(res, i) ==
    IF i = 0 THEN 0
    ELSE ExactSum100(res, i - 1)
         + (IF WeightedAspects[i] \in DOMAIN res
            THEN Weight100(WeightedAspects[i]) * Points(res[WeightedAspects[i]].quality)
            ELSE 0)

ExactPercent100(res) == 25 * ExactSum100(res, Len(WeightedAspects))

\* n hundredths rounded to tenths, ties to even.
Tenths(n) == RoundDiv(n, 10)

Band(p100) ==
    IF p100 >= 8500 THEN "Excellent"
    ELSE IF p100 >= 7000 THEN "Good"
    ELSE IF p100 >= 5500 THEN "Fair"
    ELSE "Poor"

SummaryOf(t) ==
    CASE t = "Excellent" ->
            "This is a high-quality image with excellent technical characteristics."
      [] t = "Good" ->
            "This is a good quality image with minor areas for improvement."
      [] t = "Fair" ->
            "This image has acceptable quality but would benefit from enhancement."
      [] t = "Poor" ->
            "This image has significant quality issues that should be addressed."

Aggregated == pc = "done" /\ "overall" \in DOMAIN ret

AllSix == AspectSet \subseteq DOMAIN ret

TiersAre(s, b, c, n, cb, sat) ==
    /\ AllSix
    /\ ret["sharpness"].quality = s
    /\ ret["brightness"].quality = b
    /\ ret["contrast"].quality = c
    /\ ret["noise"].quality = n
    /\ ret["color_balance"].quality = cb
    /\ ret["saturation"].quality = sat

C3Example ==
    TiersAre("Excellent", "Good", "Excellent", "Good", "Excellent", "Excellent")

\* C3 as stated: with all six weighted aspects present the score is the
\* weighted point sum / 4 * 100 rounded to one decimal, and for the tiers
\* Excellent, Good, Excellent, Good, Excellent, Excellent the weighted sum is
\* 3.75, the score 93.8 and the overall tier Excellent.
C3_AsStated ==
    Aggregated /\ AllSix =>
        /\ ret["overall"].score = Tenths(ExactPercent100(ret))
        /\ C3Example =>
              /\ ExactSum100(ret, Len(WeightedAspects)) = 375
              /\ ret["overall"].score = 938
              /\ ret["overall"].quality = "Excellent"

\* C3 amended: with all six weighted aspects present the score is a
\* one-decimal value nearest to the weighted point sum / 4 * 100 (the sum is
\* accumulated in binary floating point, so when the exact percentage lies
\* halfway between two one-decimal values either of them may come out), and
\* for the tiers Excellent, Good, Excellent, Good, Excellent, Excellent the
\* weighted sum is 3.65, the score 91.2 and the overall tier Excellent.
C3_WeightedScore ==
    Aggregated /\ AllSix =>
        /\ Abs(10 * ret["overall"].score - ExactPercent100(ret)) <= 5
        /\ C3Example =>
              /\ ExactSum100(ret, Len(WeightedAspects)) = 365
              /\ total_score(ret, 1, Zero) = <<419328, 419430, 681574, 3>>
              /\ ret["overall"].score = 912
              /\ ret["overall"].quality = "Excellent"

C3_Witness == Aggregated /\ C3Example /\ ret["overall"].score = 912

\* C4: the overall tier is Excellent iff the percentage is at least 85, Good
\* iff it is in [70, 85), Fair iff it is in [55, 70) and Poor below 55, a
\* percentage of exactly 85, 70 or 55 getting the higher tier; each tier
\* carries its one summary sentence.
C4_TierBands ==
    Aggregated /\ AllSix =>
        /\ ret["overall"].quality = Band(ExactPercent100(ret))
        /\ ret["overall"].summary = SummaryOf(ret["overall"].quality)

\* C5: an absent weighted aspect does not make the call fail; its term is left
\* out of the sum, which is still divided by 4 (no renormalisation), so the
\* score is a one-decimal value nearest to the sum of the present terms
\* / 4 * 100; sharpness absent with the other five Excellent gives 75.0 and
\* Good, an empty map gives 0 and Poor.
C5_AbsentSkipped ==
    Aggregated =>
        /\ Abs(10 * ret["overall"].score - ExactPercent100(ret)) <= 5
        /\ (/\ DOMAIN ret \cap AspectSet = AspectSet \ {"sharpness"}
            /\ \A a \in AspectSet \ {"sharpness"} : ret[a].quality = "Excellent")
           => ret["overall"].score = 750 /\ ret["overall"].quality = "Good"
        /\ DOMAIN ret \cap AspectSet = {}
           => ret["overall"].score = 0 /\ ret["overall"].quality = "Poor"

C5_Witness ==
    /\ Aggregated
    /\ DOMAIN ret \cap AspectSet = AspectSet \ {"sharpness"}
    /\ \A a \in AspectSet \ {"sharpness"} : ret[a].quality = "Excellent"
    /\ ret["overall"].score = 750

\* ---------------------------------------------------------------------------
\* C6: the recommendations of a complete report hold a sentence of a weighted
\* aspect exactly when that aspect's tier is Poor or Fair, at most one per
\* aspect; the fallback sentence is there exactly when no weighted aspect is
\* Poor or Fair, and is then the whole list.
SentencesOf(aspect) ==
    CASE aspect = "sharpness"     -> {sharpness_advice}
      [] aspect = "brightness"    -> {brighten_advice, dim_advice}
      [] aspect = "contrast"      -> {contrast_advice}
      [] aspect = "noise"         -> {noise_advice}
      [] aspect = "color_balance" -> {color_balance_advice}
      [] aspect = "saturation"    -> {saturate_advice, desaturate_advice}

Mentions(recs, aspect) ==
    {k \in DOMAIN recs : recs[k] \in SentencesOf(aspect)}

Weak(aspect) == ret[aspect].quality \in {"Poor", "Fair"}

Recommended == pc = "recommended" /\ DOMAIN ret = ReportKeys

C6_AdviceIffWeak ==
    Recommended =>
        /\ \A a \in AspectSet :
              /\ Mentions(report, a) # {} <=> Weak(a)
              /\ Cardinality(Mentions(report, a)) <= 1
        /\ (\E k \in DOMAIN report : report[k] = fallback_advice)
              <=> ~ \E a \in AspectSet : Weak(a)
        /\ (\E k \in DOMAIN report : report[k] = fallback_advice)
              => report = <<fallback_advice>>
        /\ (\A a \in AspectSet : ret[a].quality = "Excellent")
              => report = <<fallback_advice>>

\* An all-Excellent report yields the fallback alone ...
C6_Witness ==
    /\ Recommended
    /\ \A a \in AspectSet : ret[a].quality = "Excellent"
    /\ report = <<fallback_advice>>

\* ---------------------------------------------------------------------------
\* Colour balance.  The channel means and the deviation of an image of one
\* colour <<b, g, r>>, worked out from the colour itself, in hundredths.
Balanced == pc = "saturation" /\ "color_balance" \in DOMAIN results

OneColour == img.contrast_std = 0 /\ Flat(img.bands)

Deviation100(c) ==
    LET s == c[1] + c[2] + c[3]
    IN  RoundDiv(100 * Max({Abs(3 * c[k] - s) : k \in 1..3}), 3)

\* C7 as stated: an image of one colour gets a max channel deviation of about
\* 0 (here: below 1) and the tier Excellent.
C7_AsStated ==
    Balanced /\ OneColour =>
        /\ results["color_balance"].score < 100
        /\ results["color_balance"].quality = "Excellent"

\* C7, corrected: for an image of one colour <<b, g, r>> the score is the
\* largest distance of r, g, b from (r + g + b) / 3, to two decimals; it is 0
\* exactly for the greys, the tier is Excellent exactly when it is below 10,
\* and solid RGB (70, 130, 180) gets 56.67 and the tier Poor.
C7_UniformColourDeviation ==
    Balanced /\ OneColour =>
        LET c == img.bands[1]
            cb == results["color_balance"]
        IN  /\ cb.score = Deviation100(c)
            /\ cb.score = 0 <=> (c[1] = c[2] /\ c[2] = c[3])
            /\ cb.quality = "Excellent" <=> cb.score < 10 * 100
            /\ c = Steel => cb.score = 5667 /\ cb.quality = "Poor"

C7_Witness ==
    /\ Balanced /\ OneColour
    /\ img.bands = <<Steel>>
    /\ results["color_balance"].score = 5667
    /\ results["color_balance"].quality = "Poor"

\* ---------------------------------------------------------------------------
\* C8: whenever the colour balance is Poor, the cast the description names is
\* that of the channel whose mean is strictly greater than both others; for
\* the means red 150, green 100, blue 90 the tier is Poor and the cast reddish.
NamedCast == results["color_balance"].description[2]

StrictlyGreatest(c) ==
    \A k \in 1..3 \ {c} :
        ChannelSum(img.bands, c) > ChannelSum(img.bands, k)

C8_CastIsStrictlyGreatest ==
    Balanced /\ results["color_balance"].quality = "Poor" =>
        /\ Len(results["color_balance"].description) = 3
        /\ NamedCast = "reddish"  => StrictlyGreatest(3)
        /\ NamedCast = "greenish" => StrictlyGreatest(2)
        /\ NamedCast = "bluish"   => StrictlyGreatest(1)
        /\ img.bands = << <<90, 100, 150>> >> => NamedCast = "reddish"

\* ---------------------------------------------------------------------------
\* The bands of the two range metrics, written on the value in thousandths.
Within(x, lo, hi) == lo * 1000 <= x /\ x <= hi * 1000

Below(x, t) == x < t * 1000

Above(x, t) == x > t * 1000

\* C9: every mean luminance b gets exactly one tier: Excellent iff
\* 80 <= b <= 180; Good iff 60 <= b < 80 or 180 < b <= 200; Fair iff
\* 40 <= b < 60 or 200 < b <= 220; Poor otherwise.  80.0 and 180.0 are
\* Excellent, 79.99 is at most Good; a Poor result is described as too dark
\* iff b < 40 and as overexposed iff b > 220.
Brightened == pc = "contrast" /\ "brightness" \in DOMAIN results

TooDark == "The image is too dark, making details difficult to see."

Overexposed == "The image is overexposed with blown-out highlights."

C9_BrightnessBands ==
    Brightened =>
        LET b == img.mean_brightness
            q == results["brightness"].quality
            d == results["brightness"].description
        IN  /\ q \in Tiers
            /\ q = "Excellent" <=> Within(b, 80, 180)
            /\ q = "Good" <=> (Within(b, 60, 200) /\ ~Within(b, 80, 180))
            /\ q = "Fair" <=> (Within(b, 40, 220) /\ ~Within(b, 60, 200))
            /\ q = "Poor" <=> (Below(b, 40) \/ Above(b, 220))
            /\ b = 79990 => q \in {"Good", "Fair", "Poor"}
            /\ q = "Poor" => /\ d = TooDark <=> Below(b, 40)
                             /\ d = Overexposed <=> Above(b, 220)
            /\ q # "Poor" => d \notin {TooDark, Overexposed}

\* ... 79.99 has been classified, as Good.
C9_Witness ==
    /\ Brightened
    /\ img.mean_brightness = 79990
    /\ results["brightness"].quality = "Good"

\* ---------------------------------------------------------------------------
\* C10: every mean saturation s gets exactly one tier: Excellent iff
\* 80 <= s <= 150; Good iff 60 <= s < 80 or 150 < s <= 180; Fair iff
\* 40 <= s < 60 or 180 < s <= 200; Poor otherwise.  80 and 150 are
\* Excellent, 40 and 200 are Fair; a Poor result is described as washed out
\* iff s < 40 and as oversaturated iff s > 200.
Saturated == pc = "resolution" /\ "saturation" \in DOMAIN results

WashedOut == "The image appears washed out with very low color saturation."

Oversaturated == "The image is oversaturated with unnatural, intense colors."

C10_SaturationBands ==
    Saturated =>
        LET m == img.mean_saturation
            q == results["saturation"].quality
            d == results["saturation"].description
        IN  /\ q \in Tiers
            /\ q = "Excellent" <=> Within(m, 80, 150)
            /\ q = "Good" <=> (Within(m, 60, 180) /\ ~Within(m, 80, 150))
            /\ q = "Fair" <=> (Within(m, 40, 200) /\ ~Within(m, 60, 180))
            /\ q = "Poor" <=> (Below(m, 40) \/ Above(m, 200))
            /\ q = "Poor" => /\ d = WashedOut <=> Below(m, 40)
                             /\ d = Oversaturated <=> Above(m, 200)
            /\ q # "Poor" => d \notin {WashedOut, Oversaturated}

\* ... exactly 200 has been classified, as Fair.
C10_Witness ==
    /\ Saturated
    /\ img.mean_saturation = 200000
    /\ results["saturation"].quality = "Fair"

\* ---------------------------------------------------------------------------
\* C11: sharpness (Laplacian variance v) is Excellent iff v > 500, Good iff
\* 200 < v <= 500, Fair iff 100 < v <= 200, Poor iff v <= 100; contrast
\* (standard deviation c) is Excellent iff c > 60, Good iff 40 < c <= 60, Fair
\* iff 25 < c <= 40, Poor iff c <= 25.  A value on a threshold gets the lower
\* tier, and every value gets exactly one tier.
Over(x, lo, hi) == lo * 1000 < x /\ x <= hi * 1000

Descending(q, x, fair, good, excellent) ==
    /\ q \in Tiers
    /\ q = "Excellent" <=> Above(x, excellent)
    /\ q = "Good" <=> Over(x, good, excellent)
    /\ q = "Fair" <=> Over(x, fair, good)
    /\ q = "Poor" <=> ~Above(x, fair)

C11_HigherIsBetterBands ==
    /\ "sharpness" \in DOMAIN results =>
          Descending(results["sharpness"].quality, img.laplacian_var, 100, 200, 500)
    /\ "contrast" \in DOMAIN results =>
          Descending(results["contrast"].quality, img.contrast_std, 25, 40, 60)

\* ... a variance of exactly 500 has been classified Good and, in the same
\* run, a standard deviation of 50 Good.
C11_Witness ==
    /\ pc = "noise"
    /\ img.laplacian_var = 500000
    /\ results["sharpness"].quality = "Good"
    /\ results["contrast"].quality = "Good"

\* ---------------------------------------------------------------------------
\* C12: the noise estimate n is Excellent iff n < 5, Good iff 5 <= n < 10,
\* Fair iff 10 <= n < 20, Poor iff n >= 20; the colour-balance max deviation d
\* is Excellent iff d < 10, Good iff 10 <= d < 20, Fair iff 20 <= d < 35, Poor
\* iff d >= 35.  A value on a threshold gets the worse tier, and every value
\* gets exactly one tier.
Ascending(q, x, unit, excellent, good, fair) ==
    /\ q \in Tiers
    /\ q = "Excellent" <=> x < excellent * unit
    /\ q = "Good" <=> (excellent * unit <= x /\ x < good * unit)
    /\ q = "Fair" <=> (good * unit <= x /\ x < fair * unit)
    /\ q = "Poor" <=> x >= fair * unit

\* The max deviation of the channel means c = <<b, g, r>>, in thirds.
Thirds(c) ==
    LET s == c[1] + c[2] + c[3]
    IN  Max({Abs(3 * c[k] - s) : k \in 1..3})

C12_LowerIsBetterBands ==
    /\ "noise" \in DOMAIN results =>
          Ascending(results["noise"].quality, img.noise_estimate, 1000, 5, 10, 20)
    /\ "color_balance" \in DOMAIN results =>
          Ascending(results["color_balance"].quality, Thirds(img.bands[1]), 3,
                    10, 20, 35)

\* ... a max deviation of exactly 35 has been classified Poor (and the noise
\* estimate 7 of the same image Good).
C12_Witness ==
    /\ pc = "saturation"
    /\ img.bands = << <<100, 145, 160>> >>
    /\ results["color_balance"].score = 3500
    /\ results["color_balance"].quality = "Poor"
    /\ results["noise"].quality = "Good"

\* ---------------------------------------------------------------------------
\* C13: the noise score is the standard deviation, over all pixels, of the
\* signed difference luminance - blurred luminance: a pixel darker than its
\* blurred value contributes a negative difference, not one wrapped modulo 256.
Difference(gray) ==
    LET blurred == GaussianBlur(gray)
    IN  [i \in DOMAIN gray |-> gray[i] - blurred[i]]

NoiseAssessed == pc = "color_balance" /\ "noise" \in DOMAIN results

C13_SignedDifference ==
    NoiseAssessed =>
        results["noise"].score = Round2(std(Difference(img.gray)))

\* ---------------------------------------------------------------------------
\* C14: the pixel count height x width is High Resolution iff it is
\* >= 8,000,000, Medium Resolution iff it is in [2,000,000, 8,000,000), Low
\* Resolution otherwise, whatever the detail tier; exactly 8,000,000 pixels
\* is High and 7,999,999 is Medium.
Resolved == pc = "overall" /\ "resolution" \in DOMAIN results

C14_ResolutionBuckets ==
    Resolved =>
        LET n == img.height * img.width
            q == results["resolution"].resolution_quality
        IN  /\ results["resolution"].total_pixels = n
            /\ q = "High Resolution" <=> n >= 8000000
            /\ q = "Medium Resolution" <=> (2000000 <= n /\ n < 8000000)
            /\ q = "Low Resolution" <=> n < 2000000
            /\ n = 8000000 => q = "High Resolution"
            /\ n = 7999999 => q = "Medium Resolution"

\* ... an image of exactly 8,000,000 pixels with little detail is High.
C14_Witness ==
    /\ Resolved
    /\ img.height * img.width = 8000000
    /\ results["resolution"].detail_quality = "Low Detail"
    /\ results["resolution"].resolution_quality = "High Resolution"

\* ---------------------------------------------------------------------------
\* C15: the overall result does not depend on the resolution entry or on
\* image_path: it is the overall result of the map cut down to the tiers of
\* the six weighted aspects, so two maps that agree on those tiers and differ
\* in (or lack) the resolution entry or the path get the same overall result.
TiersOnly(res) ==
    [a \in AspectSet \cap DOMAIN res |-> [quality |-> res[a].quality]]

C15_ResolutionNotWeighted ==
    Aggregated => ret["overall"] = calculate_overall_score(TiersOnly(ret))

\* ... a map with a High Resolution entry and six Fair aspects got 50.0, Poor.
C15_Witness ==
    /\ Aggregated
    /\ "resolution" \in DOMAIN ret
    /\ ret["resolution"].resolution_quality = "High Resolution"
    /\ \A a \in AspectSet : ret[a].quality = "Fair"
    /\ ret["overall"].score = 500
    /\ ret["overall"].quality = "Poor"

\* ---------------------------------------------------------------------------
\* C16: assess_image is deterministic and stateless: two calls on the same
\* unchanged file that return reports return the same report, the report of a
\* file is the one a first call on it returns whatever was assessed before,
\* a file that cannot be loaded gets its error every time, and no call
\* changes a field of the instance.
IsReport(value) == "overall" \in DOMAIN value

C16_Stateless ==
    /\ self = [results |-> << >>, explanations |-> << >>]
    /\ \A i \in DOMAIN kept :
          LET file == kept[i][1]
              value == kept[i][2]
          IN  /\ IsReport(value) =>
                    value = complete_results(file, file.image)
              /\ ~file.exists =>
                    value = ("error" :> <<"Image not found: ", file.name>>)
              /\ \A j \in DOMAIN kept :
                    (kept[j][1] = file /\ IsReport(value) /\ IsReport(kept[j][2]))
                        => kept[j][2] = value

\* ... the same file has been assessed twice, with a report each time.
C16_Witness ==
    /\ Len(kept) = 2
    /\ kept[1][1] = kept[2][1]
    /\ IsReport(kept[1][2])
    /\ kept[2][2] = kept[1][2]

\* ---------------------------------------------------------------------------
\* C17: for a path that does not exist load_image fails with the not-found
\* condition before any decoder is invoked, whatever the extension; a decode
\* failure of an existing file is a decode error, distinct from not-found,
\* and for a RAW file it carries the underlying cause.
Loaded == pc # "load"

RawNamed(file) ==
    file.name[3] \in {".cr2", ".CR2", ".nef", ".NEF", ".arw", ".dng"}

C17_NotFoundBeforeDecode ==
    Loaded =>
        LET outcome == load_image(image_path)
        IN  /\ ~image_path.exists =>
                  /\ outcome.raised = "FileNotFoundError"
                  /\ decoders = <<>>
                  /\ ret = ("error" :> <<"Image not found: ", image_path.name>>)
            /\ (image_path.exists /\ outcome.raised # None) =>
                  /\ outcome.raised = "ValueError"
                  /\ Len(decoders) = 1
                  /\ DOMAIN ret = {"error"}
                  /\ ret["error"][1] # "Image not found: "
                  /\ RawNamed(image_path) =>
                        /\ decoders = <<"rawpy.imread">>
                        /\ ret["error"] =
                              <<"Could not process raw image ", image_path.name,
                                ": ", "LibRawFileUnsupportedError">>

\* ... a missing file with a RAW extension has been refused, no decoder called.
C17_Witness ==
    /\ pc = "done"
    /\ ~image_path.exists
    /\ image_path.name[3] = ".NEF"
    /\ decoders = <<>>
    /\ ret = ("error" :> <<"Image not found: ", image_path.name>>)

\* ---------------------------------------------------------------------------
\* C18: two upload requests handled concurrently do not interfere: each
\* response is one the request gets when it is handled alone (the assessment
\* of the bytes it uploaded), and from its save to its cleanup the file at
\* its path is its own, also when both uploads carry the same filename.
OwnFile(r) ==
    [name |-> reqs[r].filepath, exists |-> TRUE,
     format |-> reqs[r].upload.format, image |-> reqs[r].upload.image]

AloneResponses(r) ==
    LET outs == assess_image(OwnFile(r))
    IN  {[status |-> 500, body |-> ("error" :> out["error"])] :
            out \in {o \in outs : "error" \in DOMAIN o}}
        \cup
        {[status |-> 200,
          body |-> [success |-> TRUE, results |-> out,
                    report |-> generate_report(out)]] :
            out \in {o \in outs : "error" \notin DOMAIN o}}
        \cup
        {[status |-> 500, body |-> ("error" :> <<"exception after ", at>>)] :
            at \in {"assessed", "removed"}}

C18_NoInterference ==
    \A r \in DOMAIN reqs :
        /\ (reqs[r].pc = "responded" /\ Saved(r)) =>
              reqs[r].response \in AloneResponses(r)
        /\ reqs[r].pc \in {"saved", "assessed", "reported"} =>
              /\ reqs[r].filepath \in DOMAIN disk
              /\ disk[reqs[r].filepath].owner = r

\* ---------------------------------------------------------------------------
\* C19: the handler answers 400 with an {error} body, nothing saved and no
\* assessment made, when the request has no file part, an empty filename or a
\* filename whose extension is not allowed; it answers 500 with {error} when
\* the assessment yields an error result; it answers {success, results,
\* report} only when the assessment succeeded.
Refused(r) ==
    \/ ~reqs[r].has_file
    \/ reqs[r].filename = <<"", "", "">>
    \/ reqs[r].filename[3] \notin {".png", ".PNG", ".cr2"}

C20_SaturationDirection ==
    (Recommended /\ ret["saturation"].quality \in {"Poor", "Fair"}) =>
        LET m == image_path.image.mean_saturation
            said == {report[k] : k \in Mentions(report, "saturation")}
        IN  /\ Cardinality(Mentions(report, "saturation")) = 1
            /\ Below(m, 60) =>
                  said = {"Increase color saturation for more vibrant appearance"}
            /\ Above(m, 180) =>
                  said = {"Reduce saturation for more natural color appearance"}

\* ---------------------------------------------------------------------------
\* C21: for every metric the emitted score is the statistic rounded to two
\* decimals while the tier is the tier of the unrounded statistic, also when
\* the rounded score lies on the other side of a threshold: a mean brightness
\* of 79.996 is emitted as 80.0 with tier Good, not Excellent.
Graded(aspect) == aspect \in DOMAIN results /\ "quality" \in DOMAIN results[aspect]

RangeTier(q, x, fair, good, excellent) ==
    /\ q \in Tiers
    /\ q = "Excellent" <=> Within(x, excellent[1], excellent[2])
    /\ q = "Good" <=> (Within(x, good[1], good[2]) /\ ~Within(x, excellent[1], excellent[2]))
    /\ q = "Fair" <=> (Within(x, fair[1], fair[2]) /\ ~Within(x, good[1], good[2]))
    /\ q = "Poor" <=> ~Within(x, fair[1], fair[2])

C21_TierOfUnrounded ==
    /\ Graded("sharpness") =>
          /\ results["sharpness"].score = Round2(img.laplacian_var)
          /\ Descending(results["sharpness"].quality, img.laplacian_var, 100, 200, 500)
    /\ Graded("brightness") =>
          /\ results["brightness"].score = Round2(img.mean_brightness)
          /\ RangeTier(results["brightness"].quality, img.mean_brightness,
                       <<40, 220>>, <<60, 200>>, <<80, 180>>)
          /\ img.mean_brightness = 79996 =>
                /\ results["brightness"].score = 8000
                /\ results["brightness"].quality = "Good"
    /\ Graded("contrast") =>
          /\ results["contrast"].score = Round2(img.contrast_std)
          /\ Descending(results["contrast"].quality, img.contrast_std, 25, 40, 60)
    /\ Graded("noise") =>
          /\ results["noise"].score = Round2(img.noise_estimate)
          /\ Ascending(results["noise"].quality, img.noise_estimate, 1000, 5, 10, 20)
    /\ Graded("color_balance") =>
          /\ results["color_balance"].score = RoundDiv(100 * Thirds(img.bands[1]), 3)
          /\ Ascending(results["color_balance"].quality, Thirds(img.bands[1]), 3,
                       10, 20, 35)
    /\ Graded("saturation") =>
          /\ results["saturation"].score = Round2(img.mean_saturation)
          /\ RangeTier(results["saturation"].quality, img.mean_saturation,
                       <<40, 200>>, <<60, 180>>, <<80, 150>>)

\* ... all six metrics have been graded on a mean brightness of 79.996: the
\* score reads 80.0 and the tier is Good.
C21_Witness ==
    /\ pc = "resolution"
    /\ img.mean_brightness = 79996
    /\ results["brightness"].score = 8000
    /\ results["brightness"].quality = "Good"

\* ---------------------------------------------------------------------------
\* C22: the decoder is chosen once, from the lower-cased extension alone: a
\* file with a RAW extension (in any letter case) is only ever handed to the
\* RAW decoder, any other file only to the raster decoder, whatever its bytes
\* are; an existing file is decoded exactly once, and a failing decode is
\* followed by the error, not by a retry or by the other decoder.
DecodersFor(file) ==
    IF RawNamed(file) THEN <<"rawpy.imread">> ELSE <<"cv2.imread">>

C22_DecoderChosenOnce ==
    /\ ~Loaded => decoders = <<>>
    /\ (Loaded /\ image_path.exists) => decoders = DecodersFor(image_path)
    /\ (Loaded /\ image_path.exists
          /\ image_path.format # (IF RawNamed(image_path) THEN "raw" ELSE "raster")) =>
            /\ pc \in {"done", "reported"}
            /\ DOMAIN ret = {"error"}

\* ... a file named .NEF whose bytes the raster decoder would have read has
\* been refused by the RAW decoder, and the call has returned the error.
C22_Witness ==
    /\ pc = "done"
    /\ image_path.name[3] = ".NEF"
    /\ image_path.exists
    /\ image_path.format = "raster"
    /\ decoders = <<"rawpy.imread">>
    /\ DOMAIN ret = {"error"}

\* ---------------------------------------------------------------------------
\* C23: generate_report and generate_recommendations leave the result they are
\* given as it was (no key, score, tier or description added, removed or
\* altered), and the overall line and every aspect section of the report print
\* the tier, score, metric and description stored in the result.
Rendered == pc = "reported" /\ IsReport(ret)

Heading(aspect) ==
    CASE aspect = "sharpness"     -> "Sharpness"
      [] aspect = "brightness"    -> "Brightness"
      [] aspect = "contrast"      -> "Contrast"
      [] aspect = "noise"         -> "Noise"
      [] aspect = "color_balance" -> "Color Balance"
      [] aspect = "saturation"    -> "Saturation"

PrintsStored ==
    Rendered =>
        /\ report[6] = <<"OVERALL QUALITY: ", ret["overall"].quality,
                         " (", ret["overall"].score, "%)">>
        /\ report[7] = <<ret["overall"].summary>>
        /\ \A a \in AspectSet :
              \E k \in DOMAIN report :
                  /\ report[k] = <<Heading(a), ":">>
                  /\ report[k + 1] = <<"  * Quality: ", ret[a].quality>>
                  /\ report[k + 2] = <<"  * Score: ", ret[a].score,
                                       " (", ret[a].metric, ")">>
                  /\ report[k + 3] = <<"  * ", ret[a].description>>

C23_RenderingIsPure ==
    /\ [][(pc = "done" /\ pc' \in {"reported", "recommended"}) => ret' = ret]_vars
    /\ []PrintsStored

\* ... a report has been rendered, its result still the one assess_image
\* computes for the file, and the overall line prints the stored tier Poor.
C23_Witness ==
    /\ Rendered
    /\ ret = complete_results(image_path, image_path.image)
    /\ ret["overall"].quality = "Poor"
    /\ report[6][2] = "Poor"

\* ---------------------------------------------------------------------------
\* The best and the worst tier among the six weighted aspects, as points.
BestPoints == Max({Points(ret[a].quality) : a \in AspectSet})

WorstPoints == -Max({-Points(ret[a].quality) : a \in AspectSet})

AllSixAre(t) == TiersAre(t, t, t, t, t, t)

\* C24 as stated: with all six weighted aspects present the overall tier is
\* never better than the best aspect tier and never worse than the worst; when
\* all six have the same tier T, the overall tier is T.
C24_AsStated ==
    Aggregated /\ AllSix =>
        /\ Points(ret["overall"].quality) <= BestPoints
        /\ Points(ret["overall"].quality) >= WorstPoints
        /\ \A t \in Tiers : AllSixAre(t) => ret["overall"].quality = t

\* C24 amended: with all six weighted aspects present the overall tier is
\* never better than the best aspect tier, and never worse than the worst
\* aspect tier unless that worst tier is Fair, where the overall tier may be
\* Poor; six aspects of the same tier T give the overall tier T for T
\* Excellent, Good or Poor, while six Fair aspects give 50.0 and Poor.
C24_OverallWithinAspects ==
    Aggregated /\ AllSix =>
        /\ Points(ret["overall"].quality) <= BestPoints
        /\ WorstPoints # Points("Fair") =>
              Points(ret["overall"].quality) >= WorstPoints
        /\ \A t \in Tiers \ {"Fair"} : AllSixAre(t) => ret["overall"].quality = t
        /\ AllSixAre("Fair") =>
              /\ ret["overall"].score = 500
              /\ ret["overall"].quality = "Poor"

\* ... six Fair aspects have been aggregated to 50.0, Poor.
C24_Witness ==
    /\ Aggregated
    /\ AllSixAre("Fair")
    /\ ret["overall"].score = 500
    /\ ret["overall"].quality = "Poor"

\* ---------------------------------------------------------------------------
\* C25: for every combination of the six aspect tiers the emitted score and
\* the emitted tier agree: the thresholds 85 / 70 / 55 applied to the score
\* rounded to one decimal give the tier returned, and the score lies in
\* [25, 100].
C25_ScoreMatchesTier ==
    Aggregated /\ AllSix =>
        /\ Band(10 * ret["overall"].score) = ret["overall"].quality
        /\ 250 <= ret["overall"].score
        /\ ret["overall"].score <= 1000

\* ---------------------------------------------------------------------------
\* C26: generate_report never raises on a value assess_image returned: for an
\* error value it is the single line 'Error assessing image: <message>'
\* (no aspect is consulted, no recommendation produced); for a report it is
\* the full text, with its header, the overall line, the resolution section,
\* the six aspect sections and a recommendations section of at least one
\* bullet.
LinesAt(line) == {k \in DOMAIN report : report[k] = line}

C26_RenderNeverFails ==
    /\ pc # "raised"
    /\ pc = "reported" =>
          IF "error" \in DOMAIN ret
          THEN report = << <<"Error assessing image: ", ret["error"]>> >>
          ELSE /\ report[2] = <<"IMAGE QUALITY ASSESSMENT REPORT">>
               /\ report[4] = <<"Image: ", <<image_path.name[2], image_path.name[3]>> >>
               /\ report[6][1] = "OVERALL QUALITY: "
               /\ report[9] = <<"DETAILED ANALYSIS:">>
               /\ report[11] = <<"Resolution & Detail:">>
               /\ \A a \in AspectSet : LinesAt(<<Heading(a), ":">>) # {}
               /\ \E k \in LinesAt(<<"RECOMMENDATIONS:">>) :
                     /\ k + 2 <= Len(report)
                     /\ \A j \in (k + 2)..Len(report) :
                           /\ report[j][1] = "* "
                           /\ report[j][2] \in STRING
                           /\ report[j][2] # ""

\* ... a report with no weak aspect has been rendered: its recommendations
\* section is the one sentence that nothing needs improving.
C26_Witness ==
    /\ pc = "reported"
    /\ "error" \notin DOMAIN ret
    /\ \A a \in AspectSet : ret[a].quality \in {"Good", "Excellent"}
    /\ report[Len(report)] =
          <<"* ", "Image quality is good - no major improvements needed">>
    /\ report[Len(report) - 1] = <<"----------------------------------------">>

\* ---------------------------------------------------------------------------
\* C27: the aggregator is monotone: raising the tier of one weighted aspect
\* (Poor < Fair < Good < Excellent) while the other five stay as they are
\* never lowers the overall score and never lowers the overall tier.
RaisedFrom(low, high) ==
    \E a \in AspectSet :
        /\ Rank(high[a].quality) > Rank(low[a].quality)
        /\ \A b \in AspectSet \ {a} : high[b].quality = low[b].quality

C27_Monotone ==
    (Len(kept) = 2 /\ RaisedFrom(kept[1][2], kept[2][2])) =>
        /\ kept[2][2]["overall"].score >= kept[1][2]["overall"].score
        /\ Rank(kept[2][2]["overall"].quality) >= Rank(kept[1][2]["overall"].quality)

\* ... six Fair aspects gave 50.0 and Poor; with sharpness raised to
\* Excellent the same map gives 62.5 and Fair.
C27_Witness ==
    /\ Len(kept) = 2
    /\ RaisedFrom(kept[1][2], kept[2][2])
    /\ \A a \in AspectSet : kept[1][2][a].quality = "Fair"
    /\ kept[1][2]["overall"] = calculate_overall_score(kept[1][2])
    /\ kept[1][2]["overall"].score = 500
    /\ kept[2][2]["sharpness"].quality = "Excellent"
    /\ kept[2][2]["overall"].score = 625
    /\ kept[2][2]["overall"].quality = "Fair"

====
